---- MODULE Spec2Model ----
(***************************************************************************)
(* CursorCombat: the level simulation core (Level, Shape and its variants, *)
(* the GameScene power-up handlers and the frame loop).                    *)
(*                                                                         *)
(* Units.  Positions are pixels.  Velocities are pixels per second.        *)
(* difficultyAdjustment and slowtimeFactor are stored in tenths (0.5 -> 5, *)
(* 0.1 -> 1).  rotation is counted in quarter turns, angularVelocity in    *)
(* quarter turns per second.  scaleFactor is stored in percent.  Times are *)
(* milliseconds.  The script values are chosen so that every product the   *)
(* code computes is a whole number of these units.                         *)
(***************************************************************************)
EXTENDS Integers, Sequences, FiniteSets, TLC

VARIABLES shapes, score, levelPassableScore,
          squaresSpared, architectureSpared, trianglesSpared, showAreaHP,
          intangibleActive, intangible, slowtimeActive, slowtime,
          slowtimeFactor, difficultyAdjustment, difficultyIndex,
          currentLevelIndex, events, pendingInsertion, staticId,
          healthBar, achievements, achievedScores, messageText, pointer,
          phase, loads, build, pc

vars == <<shapes, score, levelPassableScore,
          squaresSpared, architectureSpared, trianglesSpared, showAreaHP,
          intangibleActive, intangible, slowtimeActive, slowtime,
          slowtimeFactor, difficultyAdjustment, difficultyIndex,
          currentLevelIndex, events, pendingInsertion, staticId,
          healthBar, achievements, achievedScores, messageText, pointer,
          phase, loads, build, pc>>

(***************************************************************************)
(* Bounds of the exploration.                                              *)
(***************************************************************************)
\* number of level loads explored in one session
MaxLoads == 2
\* number of clicks explored on an armored triangle that has no hit left
MaxOverkill == 1

(***************************************************************************)
(* Program constants.                                                      *)
(***************************************************************************)
Width == 800
Height == 600
DeathPlaneMargin == 50
OffScreenDrop == 100
FadeDuration == 250
IntangibleDuration == 1000
SlowtimeDuration == 3000
SlowFactor == 1
NormalFactor == 10
OutcomeDelay == 2000
DepleteDuration == 4000
HealthFadeDuration == 500
ClearThreshold == 300
\* one frame of the loop, in milliseconds
Delta == 1000

Difficulties == <<"Easy", "Medium", "Hard", "Insane">>
DifficultyAdjustmentOf == [Easy |-> 5, Medium |-> 8, Hard |-> 10, Insane |-> 15]

(***************************************************************************)
(* Kind labels.  A label is a string of the script; Chars gives its        *)
(* characters, on which startsWith, charAt and parseInt work.              *)
(***************************************************************************)
Chars ==
  [ triangle |-> <<"t","r","i","a","n","g","l","e">>,
    square |-> <<"s","q","u","a","r","e">>,
    area |-> <<"a","r","e","a">>,
    architecture |-> <<"a","r","c","h","i","t","e","c","t","u","r","e">>,
    intangible |-> <<"i","n","t","a","n","g","i","b","l","e">>,
    slowtime |-> <<"s","l","o","w","t","i","m","e">>,
    armored_ |-> <<"a","r","m","o","r","e","d","_">>,
    armored_1 |-> <<"a","r","m","o","r","e","d","_","1">>,
    armored_2 |-> <<"a","r","m","o","r","e","d","_","2">>,
    armored_3 |-> <<"a","r","m","o","r","e","d","_","3">>,
    stealth |-> <<"s","t","e","a","l","t","h">>,
    stealth_triangle |-> <<"s","t","e","a","l","t","h","_","t","r","i","a","n","g","l","e">>,
    circle |-> <<"c","i","r","c","l","e">> ]
  @@ ("clear-friendlies" :>
        <<"c","l","e","a","r","-","f","r","i","e","n","d","l","i","e","s">>)

startsWith(label, prefix) ==
  LET s == Chars[label]
      p == Chars[prefix]
  IN  Len(s) >= Len(p) /\ SubSeq(s, 1, Len(p)) = p

DigitValue == [c \in {"0","1","2","3","4","5","6","7","8","9"} |->
                 CASE c = "0" -> 0 [] c = "1" -> 1 [] c = "2" -> 2
                   [] c = "3" -> 3 [] c = "4" -> 4 [] c = "5" -> 5
                   [] c = "6" -> 6 [] c = "7" -> 7 [] c = "8" -> 8
                   [] c = "9" -> 9]

\* parseInt(shapeType.charAt(shapeType.length - 1), 10)
parseLastDigit(label) ==
  LET s == Chars[label] IN DigitValue[s[Len(s)]]

(***************************************************************************)
(* The class hierarchy and instanceof.                                     *)
(***************************************************************************)
Classes == {"Triangle", "StealthTriangle", "ArmoredTriangle", "Square",
            "Area", "Architecture", "ClearFriendlies", "Intangible",
            "SlowTime"}

SuperClass == [Triangle |-> "Shape", StealthTriangle |-> "Triangle",
               ArmoredTriangle |-> "Triangle", Square |-> "Shape",
               Area |-> "Square", Architecture |-> "Shape",
               Upgrade |-> "Shape", ClearFriendlies |-> "Upgrade",
               Intangible |-> "Upgrade", SlowTime |-> "Upgrade"]

RECURSIVE instanceOf(_, _)
instanceOf(cls, c) ==
  IF cls = c THEN TRUE
  ELSE IF cls = "Shape" THEN FALSE
  ELSE instanceOf(SuperClass[cls], c)

(***************************************************************************)
(* Geometry: the containment tests of the hit areas.                       *)
(***************************************************************************)
\* Triangle.createGraphics: the three vertices, offset by 8
TrianglePoints == <<<<-25, 17>>, <<25, 17>>, <<0, -33>>>>
\* Square.createGraphics: Rectangle(-25, -25, 50, 50)
SquareRect == [x |-> -25, y |-> -25, width |-> 50, height |-> 50]
\* Upgrade.createGraphics: pentagon of size 30, vertices rounded to pixels
PentagonPoints == <<<<0, -30>>, <<29, -9>>, <<18, 24>>, <<-18, 24>>, <<-29, -9>>>>

\* Phaser.Geom.Triangle.Contains by barycentric coordinates; b > 0 for a
\* proper triangle, so the signs of u and v are those of their numerators.
TriangleContains(t, x, y) ==
  LET v0x == t[3][1] - t[1][1]
      v0y == t[3][2] - t[1][2]
      v1x == t[2][1] - t[1][1]
      v1y == t[2][2] - t[1][2]
      v2x == x - t[1][1]
      v2y == y - t[1][2]
      dot00 == v0x * v0x + v0y * v0y
      dot01 == v0x * v1x + v0y * v1y
      dot02 == v0x * v2x + v0y * v2y
      dot11 == v1x * v1x + v1y * v1y
      dot12 == v1x * v2x + v1y * v2y
      b == dot00 * dot11 - dot01 * dot01
      un == dot11 * dot02 - dot01 * dot12
      vn == dot00 * dot12 - dot01 * dot02
  IN  b > 0 /\ un >= 0 /\ vn >= 0 /\ un + vn < b

\* Phaser.Geom.Rectangle.Contains
RectangleContains(r, x, y) ==
  /\ r.width > 0 /\ r.height > 0
  /\ r.x <= x /\ r.x + r.width >= x
  /\ r.y <= y /\ r.y + r.height >= y

\* one edge of the even-odd ray cast of Phaser.Geom.Polygon.Contains
EdgeCrossed(pi, pj, x, y) ==
  /\ (pi[2] <= y /\ y < pj[2]) \/ (pj[2] <= y /\ y < pi[2])
  /\ IF pj[2] - pi[2] > 0
       THEN (x - pi[1]) * (pj[2] - pi[2]) < (pj[1] - pi[1]) * (y - pi[2])
       ELSE (x - pi[1]) * (pj[2] - pi[2]) > (pj[1] - pi[1]) * (y - pi[2])

\* Phaser.Geom.Polygon.Contains
PolygonContains(pts, x, y) ==
  LET n == Len(pts)
      prev(i) == IF i = 1 THEN n ELSE i - 1
      crossings == {i \in 1..n : EdgeCrossed(pts[i], pts[prev(i)], x, y)}
  IN  Cardinality(crossings) % 2 = 1

(***************************************************************************)
(* Shape: one record per spawned game object.  graphicsY is the y of the   *)
(* graphics object, which updateGraphics copies from y on every update;    *)
(* fade is the elapsed time of the death tween, -1 when there is none, and *)
(* fadeActive tells that the tween manager has taken the tween up.  uid    *)
(* numbers the shapes of a whole session (id restarts at every load).      *)
(***************************************************************************)
\* a growing tween: the scale it runs from and to (percent), its duration,
\* its elapsed time (-1 until the tween manager takes it up) and its own
\* time scale (tenths); to = 0 when the shape has none
NoTween == [from |-> 0, to |-> 0, duration |-> 0, elapsed |-> -1,
            timeScale |-> 10]

Shape(id, uid, cls, shapeType, x, y, velocityX, velocityY, angularVelocity, points) ==
  [id |-> id, uid |-> uid, cls |-> cls, shapeType |-> shapeType,
   x |-> x, y |-> y, graphicsY |-> y,
   velocityX |-> velocityX, velocityY |-> velocityY,
   angularVelocity |-> angularVelocity,
   secondVelocityX |-> 0, secondVelocityY |-> 0,
   circularVelocityX |-> 0, circularVelocityY |-> 0,
   rotation |-> 0, scaleFactor |-> 100, healthPoints |-> 0,
   dying |-> FALSE, toBeRemoved |-> FALSE, fade |-> -1,
   fadeActive |-> FALSE, points |-> points,
   growingTween |-> NoTween]

\* Architecture constructor: the polygon is normalised to its topmost point
MinY(points) ==
  CHOOSE m \in {points[i][2] : i \in 1..Len(points)} :
    \A i \in 1..Len(points) : m <= points[i][2]

NormalisedPoints(points) ==
  [i \in 1..Len(points) |-> <<points[i][1], points[i][2] - MinY(points)>>]

\* an update that moves every shape as on the Hard difficulty
ShapeUpdateFixedDifficulty(s, delta, difficulty, slowFactor) ==
  LET deltaX == (s.velocityX * 10 * delta * slowFactor) \div 100000
      deltaY == (s.velocityY * 10 * delta * slowFactor) \div 100000
      deltaAngle == (s.angularVelocity * delta * slowFactor * 10) \div 100000
  IN  [s EXCEPT !.x = @ + deltaX, !.y = @ + deltaY,
                !.rotation = @ + deltaAngle,
                !.graphicsY = s.y + deltaY]

\* Shape.update: the three velocity sources, difficulty and slow time
ShapeUpdate(s, delta, difficulty, slowFactor) ==
  LET deltaX == ((s.velocityX * difficulty
                   + 10 * (s.secondVelocityX + s.circularVelocityX))
                 * delta * slowFactor) \div 100000
      deltaY == ((s.velocityY * difficulty
                   + 10 * (s.secondVelocityY + s.circularVelocityY))
                 * delta * slowFactor) \div 100000
      deltaAngle == (s.angularVelocity * delta * slowFactor * difficulty)
                      \div 100000
  IN  [s EXCEPT !.x = @ + deltaX, !.y = @ + deltaY,
                !.rotation = @ + deltaAngle,
                !.graphicsY = s.y + deltaY]

\* a death without the fade: the shape is marked for removal at once
performDeathAtOnce(s) ==
  IF s.dying THEN s
  ELSE [s EXCEPT !.toBeRemoved = TRUE]

\* Shape.performDeathAnimation: guarded by dying, starts the 250 ms fade
performDeathAnimation(s) ==
  IF s.dying THEN s
  ELSE [s EXCEPT !.dying = TRUE, !.fade = 0]

\* the hit area of a class, in the local coordinates of its graphics
GeomContains(s, lx, ly) ==
  IF instanceOf(s.cls, "Triangle") THEN TriangleContains(TrianglePoints, lx, ly)
  ELSE IF instanceOf(s.cls, "Square") THEN RectangleContains(SquareRect, lx, ly)
  ELSE IF s.cls = "Architecture" THEN PolygonContains(s.points, lx, ly)
  ELSE PolygonContains(PentagonPoints, lx, ly)

\* the pointer offset taken back through the rotation of the graphics
LocalX(dx, dy, rotation) ==
  CASE rotation % 4 = 0 -> dx
    [] rotation % 4 = 1 -> dy
    [] rotation % 4 = 2 -> -dx
    [] rotation % 4 = 3 -> -dy

LocalY(dx, dy, rotation) ==
  CASE rotation % 4 = 0 -> dy
    [] rotation % 4 = 1 -> -dx
    [] rotation % 4 = 2 -> -dy
    [] rotation % 4 = 3 -> dx

\* the input hit test of an interactive graphics object: the pointer is
\* taken into the object's position, rotation and scale before the test
HitTest(s, p) ==
  LET dx == p[1] - s.x
      dy == p[2] - s.graphicsY
      lx == (LocalX(dx, dy, s.rotation) * 100) \div s.scaleFactor
      ly == (LocalY(dx, dy, s.rotation) * 100) \div s.scaleFactor
  IN  /\ ~s.toBeRemoved
      /\ p[1] \in 0..Width /\ p[2] \in 0..Height
      /\ GeomContains(s, lx, ly)

(***************************************************************************)
(* The game state the handlers work on: the fields of Level, GameScene and *)
(* HealthBar, the clock's timer events, and the pointer.                   *)
(***************************************************************************)
Game ==
  [shapes |-> shapes, score |-> score,
   levelPassableScore |-> levelPassableScore,
   squaresSpared |-> squaresSpared,
   architectureSpared |-> architectureSpared,
   trianglesSpared |-> trianglesSpared, showAreaHP |-> showAreaHP,
   intangibleActive |-> intangibleActive, intangible |-> intangible,
   slowtimeActive |-> slowtimeActive, slowtime |-> slowtime,
   slowtimeFactor |-> slowtimeFactor,
   difficultyAdjustment |-> difficultyAdjustment,
   difficultyIndex |-> difficultyIndex,
   currentLevelIndex |-> currentLevelIndex,
   events |-> events, pendingInsertion |-> pendingInsertion,
   staticId |-> staticId, healthBar |-> healthBar,
   achievements |-> achievements, achievedScores |-> achievedScores,
   messageText |-> messageText, pointer |-> pointer, phase |-> phase,
   loads |-> loads, build |-> build]

(***************************************************************************)
(* HealthBar.                                                              *)
(***************************************************************************)
\* HealthBar.refillAndPauseHealthBar: stops the depletion tween and sets the
\* fill back to full (fillGone stands for healthBarFill.scaleX = 0)
refillAndPauseHealthBar(g) ==
  [g EXCEPT !.healthBar.dyingTween = -1, !.healthBar.fillGone = FALSE]

\* HealthBar.decreaseHealthBar: (re)starts the 4000 ms depletion tween
decreaseHealthBar(g) ==
  [g EXCEPT !.healthBar.dyingTween = 0]

\* HealthBar.hideHealthBarInstant
hideHealthBarInstant(g) ==
  [refillAndPauseHealthBar(g) EXCEPT !.healthBar.alpha = 0]

\* HealthBar.showHealthBar: nothing when already fully visible
showHealthBar(g) ==
  IF g.healthBar.alpha = 100 THEN g
  ELSE [decreaseHealthBar(g) EXCEPT
          !.healthBar.fades = Append(@, [to |-> 100, elapsed |-> -1])]

\* HealthBar.hideHealthBar: its guard (!alpha === 0) never holds
hideHealthBar(g) ==
  refillAndPauseHealthBar(
    [g EXCEPT !.healthBar.fades = Append(@, [to |-> 0, elapsed |-> -1])])

(***************************************************************************)
(* Level: interaction dispatch.                                            *)
(***************************************************************************)
\* Level.removeShape
removeShape(g, i) ==
  [g EXCEPT !.shapes[i] = performDeathAnimation(@)]

\* a score adjustment without the penalty for squares and architecture
ScoreDeltaNoPenalty(shapeType) ==
  IF shapeType = "triangle" \/ shapeType = "stealth" THEN 1 ELSE 0

\* the score adjustment at the end of handleShapeInteraction
ScoreDelta(shapeType) ==
  (IF shapeType = "triangle" \/ shapeType = "stealth" THEN 1 ELSE 0)
  + (IF shapeType = "architecture" \/ shapeType = "square" THEN -1 ELSE 0)

\* a clear-friendlies upgrade that takes squares and architecture wherever
\* they are
ClearFriendliesAnywhere(s, upgrade) ==
  /\ instanceOf(s.cls, "Architecture") \/ instanceOf(s.cls, "Square")
  /\ ~instanceOf(s.cls, "Area")

\* the shapes the clear-friendlies upgrade takes: squares and architecture
\* (not areas) below the line -300 * scaleFactor^2 of the upgrade
ClearFriendliesTarget(s, upgrade) ==
  /\ instanceOf(s.cls, "Architecture") \/ instanceOf(s.cls, "Square")
  /\ ~instanceOf(s.cls, "Area")
  /\ s.y * 10000 > -ClearThreshold * upgrade.scaleFactor * upgrade.scaleFactor

\* a clear-friendlies branch that hands every shape it takes to the scoring
\* of the handler: -1 for each square and each piece of architecture
clearFriendliesCharging(g, i) ==
  [g EXCEPT
     !.shapes =
       [k \in 1..Len(g.shapes) |->
          IF ClearFriendliesTarget(g.shapes[k], g.shapes[i])
            THEN performDeathAnimation(
                   [g.shapes[k] EXCEPT !.y = Height + OffScreenDrop])
            ELSE g.shapes[k]],
     !.score = @ - Cardinality({k \in 1..Len(g.shapes) :
                  /\ ClearFriendliesTarget(g.shapes[k], g.shapes[i])
                  /\ ~g.shapes[k].dying})]

\* the forEach of the clear-friendlies branch
clearFriendlies(g, i) ==
  [g EXCEPT !.shapes =
     [k \in 1..Len(g.shapes) |->
        IF ClearFriendliesTarget(g.shapes[k], g.shapes[i])
          THEN performDeathAnimation(
                 [g.shapes[k] EXCEPT !.y = Height + OffScreenDrop])
          ELSE g.shapes[k]]]

\* the guard that suppresses interactions while intangible
IntangibleBlocks(g) == g.intangible

\* the upgrade branches of handleShapeInteraction
UpgradeEffect(g, i, shapeType) ==
  IF shapeType = "clear-friendlies" THEN clearFriendlies(g, i)
  ELSE IF shapeType = "intangible" THEN [g EXCEPT !.intangibleActive = TRUE]
  ELSE IF shapeType = "slowtime" THEN [g EXCEPT !.slowtimeActive = TRUE]
  ELSE g

\* armored triangles leave handleShapeInteraction before the removal
ArmoredSkips(shapeType) ==
  /\ shapeType # "clear-friendlies" /\ shapeType # "intangible"
  /\ shapeType # "slowtime"
  /\ startsWith(shapeType, "armored_")

\* a handler that tests intangible mode before it looks at the shape type
handleShapeInteractionIntangibleFirst(g, i, shapeType) ==
  IF IntangibleBlocks(g) THEN g
  ELSE IF shapeType = "area" THEN refillAndPauseHealthBar(g)
  ELSE LET g1 == UpgradeEffect(g, i, shapeType)
       IN  IF ArmoredSkips(shapeType) THEN g1
           ELSE IF g1.shapes[i].dying THEN g1
           ELSE [removeShape(g1, i) EXCEPT !.score = @ + ScoreDelta(shapeType)]

\* a handler that takes the spared flag of the class of the shape it kills
handleShapeInteractionMarkingKill(g, i, shapeType) ==
  IF shapeType = "area" THEN refillAndPauseHealthBar(g)
  ELSE IF IntangibleBlocks(g) THEN g
  ELSE LET g1 == UpgradeEffect(g, i, shapeType)
       IN  IF ArmoredSkips(shapeType) THEN g1
           ELSE IF g1.shapes[i].dying THEN g1
           ELSE [removeShape(g1, i) EXCEPT
                   !.score = @ + ScoreDelta(shapeType),
                   !.trianglesSpared =
                      IF instanceOf(g.shapes[i].cls, "Triangle")
                        THEN FALSE ELSE @,
                   !.squaresSpared =
                      IF instanceOf(g.shapes[i].cls, "Square")
                        THEN FALSE ELSE @,
                   !.architectureSpared =
                      IF instanceOf(g.shapes[i].cls, "Architecture")
                        THEN FALSE ELSE @]

\* Level.handleShapeInteraction for the shape at index i of level.shapes
handleShapeInteraction(g, i, shapeType) ==
  IF shapeType = "area" THEN refillAndPauseHealthBar(g)
  ELSE IF IntangibleBlocks(g) THEN g
  ELSE LET g1 == UpgradeEffect(g, i, shapeType)
       IN  IF ArmoredSkips(shapeType) THEN g1
           ELSE IF g1.shapes[i].dying THEN g1
           ELSE [removeShape(g1, i) EXCEPT !.score = @ + ScoreDelta(shapeType)]

\* ArmoredTriangle.generateSprite: stores the health points
generateSprite(s, healthPoints) ==
  [s EXCEPT !.healthPoints = healthPoints]

\* a takeDamage that pays for every hit instead of for the last one
takeDamageScoringEachHit(g, i) ==
  LET hp == g.shapes[i].healthPoints - 1
      g1 == [g EXCEPT !.shapes[i].healthPoints = hp, !.score = @ + 1]
  IN  IF hp = 0 THEN removeShape(g1, i) ELSE g1

\* ArmoredTriangle.takeDamage for the shape at index i
takeDamage(g, i) ==
  LET hp == g.shapes[i].healthPoints - 1
      g1 == [g EXCEPT !.shapes[i].healthPoints = hp]
  IN  IF hp = 0 THEN removeShape([g1 EXCEPT !.score = @ + 1], i)
      ELSE g1

\* the instanceof chain of checkAllShapes: the type handed to the handler
CatchUpType(cls) ==
  IF instanceOf(cls, "Triangle") THEN "triangle"
  ELSE IF instanceOf(cls, "Area") THEN "area"
  ELSE IF instanceOf(cls, "Square") THEN "square"
  ELSE IF instanceOf(cls, "Architecture") THEN "architecture"
  ELSE IF instanceOf(cls, "ClearFriendlies") THEN "clear-friendlies"
  ELSE IF instanceOf(cls, "Intangible") THEN "intangible"
  ELSE "slowtime"

\* the containment test of checkAllShapes: the pointer offset from the
\* shape's position, against the unrotated, unscaled geometry.  A Square's
\* Rectangle is handed to Triangle.Contains, whose x1..y3 are undefined
\* there, so the test is false.
CatchUpContains(s, p) ==
  LET x == p[1] - s.x
      y == p[2] - s.y
  IN  IF instanceOf(s.cls, "Triangle") THEN TriangleContains(TrianglePoints, x, y)
      ELSE IF instanceOf(s.cls, "Area") THEN RectangleContains(SquareRect, x, y)
      ELSE IF instanceOf(s.cls, "Square") THEN FALSE
      ELSE IF instanceOf(s.cls, "Architecture") THEN PolygonContains(s.points, x, y)
      ELSE PolygonContains(PentagonPoints, x, y)

\* Level.checkAllShapes: the forEach, from index i on
RECURSIVE checkShapesFrom(_, _)
checkShapesFrom(g, i) ==
  IF i > Len(g.shapes) THEN g
  ELSE LET s == g.shapes[i]
       IN  checkShapesFrom(
             IF CatchUpContains(s, g.pointer)
               THEN handleShapeInteraction(g, i, CatchUpType(s.cls))
               ELSE g,
             i + 1)

checkAllShapes(g) == checkShapesFrom(g, 1)

\* Level.clearShapesNoSound
clearShapesNoSound(g) ==
  [g EXCEPT !.shapes =
     [k \in 1..Len(g.shapes) |->
        LET s == [g.shapes[k] EXCEPT !.y = Height + OffScreenDrop]
        IN  IF ~s.toBeRemoved THEN performDeathAnimation(s) ELSE s]]

(***************************************************************************)
(* GameScene: power-ups and the time scale.                                *)
(***************************************************************************)
\* GameScene.finishIntangible: ends intangibility and runs the catch-up pass
finishIntangible(g) ==
  checkAllShapes([g EXCEPT !.intangible = FALSE])

\* GameScene.adjustActiveTweens: the growing tweens take the time scale
adjustActiveTweens(g) ==
  [g EXCEPT !.shapes =
     [k \in 1..Len(g.shapes) |->
        IF g.shapes[k].growingTween.to # 0
          THEN [g.shapes[k] EXCEPT !.growingTween.timeScale = g.slowtimeFactor]
          ELSE g.shapes[k]]]

\* GameScene.setSlowtimeFactor
setSlowtimeFactor(g, factor) ==
  adjustActiveTweens([g EXCEPT !.slowtimeFactor = factor])

\* GameScene.finishSlowtime
finishSlowtime(g) ==
  setSlowtimeFactor([g EXCEPT !.slowtime = FALSE], NormalFactor)

\* TimerEvent.remove on every pending timer of one kind
removeTimer(g, kind) ==
  [g EXCEPT
     !.events = [k \in 1..Len(g.events) |->
                   IF g.events[k].kind = kind
                     THEN [g.events[k] EXCEPT !.hasDispatched = TRUE]
                     ELSE g.events[k]],
     !.pendingInsertion = SelectSeq(@, LAMBDA e : e.kind # kind)]

\* Clock.removeAllEvents: the active timers are marked for removal at the
\* next frame; the timers added since the last frame, which still wait for
\* their insertion, are not touched (that is Clock.clearPendingEvents)
removeAllEvents(g) ==
  [g EXCEPT
     !.events = [k \in 1..Len(g.events) |->
                   [g.events[k] EXCEPT !.removed = TRUE]]]

\* Clock.delayedCall; target, speed and size are what the callback of a
\* scale ramp holds, load is the number of the level load during which the
\* call was made
TimerEvent(kind, delay, target, speed, size, load) ==
  [kind |-> kind, delay |-> delay, elapsed |-> 0, hasDispatched |-> FALSE,
   removed |-> FALSE, done |-> FALSE, target |-> target, speed |-> speed,
   size |-> size, load |-> load]

delayedCall(g, delay, kind) ==
  [g EXCEPT !.pendingInsertion =
     Append(@, TimerEvent(kind, delay, 0, 0, 0, g.loads))]

\* Shape.animateScale: one delayed call per scale ramp [delay, [speed, size]].
\* With difficultyAdjustment 0 the delay is not a number and the call never
\* comes.
RECURSIVE animateScale(_, _, _, _)
animateScale(g, uid, growingParamsArray, k) ==
  IF k > Len(growingParamsArray) \/ g.difficultyAdjustment = 0 THEN g
  ELSE LET entry == growingParamsArray[k]
           e == TimerEvent("grow", (entry[1] * 10) \div g.difficultyAdjustment,
                           uid, entry[2][1], entry[2][2], g.loads)
       IN  animateScale([g EXCEPT !.pendingInsertion = Append(@, e)],
                        uid, growingParamsArray, k + 1)

\* the callback of a scale ramp: a new growing tween for the shape
initiateGrowing(g, e) ==
  [g EXCEPT !.shapes =
     [k \in 1..Len(g.shapes) |->
        IF g.shapes[k].uid = e.target
          THEN [g.shapes[k] EXCEPT !.growingTween =
                  [from |-> g.shapes[k].scaleFactor, to |-> e.size,
                   duration |-> (e.speed * 10) \div g.difficultyAdjustment,
                   elapsed |-> -1, timeScale |-> 10]]
          ELSE g.shapes[k]]]

(***************************************************************************)
(* Level scripts.  levels.js is not part of the sources at hand: a build   *)
(* of the game is one array of scripts in the tuple format that            *)
(* processLevelData reads.                                                 *)
(***************************************************************************)
Moving(label, x, y, velocityY, angularVelocity) ==
  <<label, x, y, 0, velocityY, angularVelocity, <<>>, <<>>, <<>>, <<>>>>

Growing(label, x, y, scaleData) ==
  <<label, x, y, 0, 0, 0, <<>>, scaleData, <<>>, <<>>>>

Block == <<<<-50, 300>>, <<50, 300>>, <<50, 350>>, <<-50, 350>>>>

LevelBasics ==
  << <<1>>,
     Moving("triangle", 400, 300, 400, 20),
     Moving("square", 200, 300, 400, 0),
     Moving("intangible", 600, 300, 400, 0) >>

LevelArmored ==
  << <<1>>,
     Moving("armored_3", 400, 300, 400, 0),
     Moving("intangible", 600, 300, 400, 0) >>

LevelClear ==
  << <<0>>,
     Growing("clear-friendlies", 400, 300, <<<<0, <<500, 200>>>>>>),
     <<"architecture", Block, 400>>,
     Moving("square", 200, -1100, 400, 0) >>

LevelStealth ==
  << <<1>>,
     Moving("stealth", 400, 300, 400, 0),
     Moving("stealth_triangle", 200, 300, 400, 0),
     Moving("area", 600, 300, 400, 0) >>

LevelSlow ==
  << <<1>>,
     Growing("triangle", 400, 300, <<>>),
     Growing("slowtime", 600, 300, <<>>) >>

LevelPowerUps ==
  << <<0>>,
     Growing("slowtime", 600, 300, <<>>),
     Growing("intangible", 200, 300, <<>>) >>

\* a citizen and a piece of architecture, neither of which moves
LevelStatic ==
  << <<0>>,
     Growing("square", 200, 300, <<>>),
     <<"architecture", Block, 0>> >>

\* a script with a tuple of four entries between two well-formed tuples
LevelBroken ==
  << <<0>>,
     Growing("triangle", 400, 300, <<>>),
     <<"triangle", 200, 300, 0>>,
     Growing("square", 600, 300, <<>>) >>

\* a script with a kind label that selects no class
LevelUnknown ==
  << <<0>>,
     Growing("triangle", 400, 300, <<>>),
     Growing("circle", 200, 300, <<>>),
     Growing("square", 600, 300, <<>>) >>

\* a triangle, a citizen, a piece of architecture and an area, none of
\* which moves
LevelZone ==
  << <<0>>,
     Growing("triangle", 400, 300, <<>>),
     Growing("square", 200, 300, <<>>),
     <<"architecture", Block, 0>>,
     Growing("area", 600, 300, <<>>) >>

\* one triangle that does not move
LevelOne ==
  << <<1>>,
     Growing("triangle", 400, 300, <<>>) >>

\* a resting resource zone beside an intangible upgrade
LevelHaven ==
  << <<0>>,
     Growing("area", 600, 300, <<>>),
     Growing("intangible", 200, 300, <<>>) >>

\* a resource zone that falls past a resting square
LevelDrift ==
  << <<0>>,
     Growing("square", 200, 300, <<>>),
     Moving("area", 600, 300, 400, 0) >>

\* a triangle that falls beside one that rests
LevelPair ==
  << <<1>>,
     Moving("triangle", 400, 300, 400, 0),
     Growing("triangle", 200, 300, <<>>) >>

\* a triangle that starts to grow after a delay, beside a slow-time upgrade
LevelRamp ==
  << <<1>>,
     Growing("triangle", 400, 300, <<<<100, <<500, 200>>>>>>),
     Growing("slowtime", 600, 300, <<>>) >>

\* a falling triangle above a resting block and a resting resource zone
LevelFall ==
  << <<1>>,
     Moving("triangle", 400, 300, 400, 0),
     <<"architecture", Block, 0>>,
     Growing("area", 600, 300, <<>>) >>

\* a resting clear-friendlies upgrade between a square and a triangle
LevelSweep ==
  << <<1>>,
     Growing("clear-friendlies", 400, 300, <<>>),
     Growing("square", 200, 300, <<>>),
     Growing("triangle", 600, 300, <<>>) >>

\* a resting clear-friendlies upgrade between a square and a resource zone
LevelShelter ==
  << <<1>>,
     Growing("clear-friendlies", 400, 300, <<>>),
     Growing("square", 200, 300, <<>>),
     Growing("area", 600, 300, <<>>) >>

\* a resting clear-friendlies upgrade between a square and a slow-time
\* upgrade
LevelSpare ==
  << <<1>>,
     Growing("clear-friendlies", 400, 300, <<>>),
     Growing("square", 200, 300, <<>>),
     Growing("slowtime", 600, 300, <<>>) >>

Builds == << <<LevelBasics, LevelClear>>, <<LevelStealth, LevelArmored>>,
             <<LevelSlow>>, <<LevelPowerUps>>, <<LevelStatic>>,
             <<LevelBroken, LevelUnknown>>, <<LevelZone>>,
             <<LevelOne, LevelOne, LevelOne>>, <<LevelHaven>>,
             <<LevelDrift>>, <<LevelPair>>, <<LevelRamp>>, <<LevelFall>>,
             <<LevelSweep>>, <<LevelShelter>>, <<LevelSpare>> >>

Levels(g) == Builds[g.build]

(***************************************************************************)
(* Level: loading.                                                         *)
(***************************************************************************)
\* the class spawnShape selects for a kind label, "none" when it throws
ClassOfLabel(shapeType) ==
  IF shapeType = "triangle" THEN "Triangle"
  ELSE IF shapeType = "square" THEN "Square"
  ELSE IF shapeType = "area" THEN "Area"
  ELSE IF shapeType = "clear-friendlies" THEN "ClearFriendlies"
  ELSE IF shapeType = "intangible" THEN "Intangible"
  ELSE IF shapeType = "slowtime" THEN "SlowTime"
  ELSE IF startsWith(shapeType, "armored_") THEN "ArmoredTriangle"
  ELSE IF startsWith(shapeType, "stealth") THEN "StealthTriangle"
  ELSE "none"

\* Level.spawnArchitecture
spawnArchitecture(g, points, velocityY) ==
  [g EXCEPT
     !.architectureSpared = FALSE,
     !.staticId = @ + 1,
     !.shapes = Append(@, Shape(g.staticId, 100 * g.loads + g.staticId,
                                "Architecture", "architecture",
                                0, MinY(points), 0, velocityY, 0,
                                NormalisedPoints(points)))]

\* Level.spawnShape, for a label that selects a class
spawnShape(g, shapeType, x, y, velocityX, velocityY, angularVelocity, scaleData) ==
  LET cls == ClassOfLabel(shapeType)
      uid == 100 * g.loads + g.staticId
      s0 == Shape(g.staticId, uid, cls, shapeType,
                  x, y, velocityX, velocityY, angularVelocity, <<>>)
      s == IF startsWith(shapeType, "armored_")
             THEN generateSprite(s0, parseLastDigit(shapeType))
             ELSE s0
      g1 == animateScale(g, uid, scaleData, 1)
  IN  [g1 EXCEPT
         !.trianglesSpared = IF instanceOf(cls, "Triangle") THEN FALSE ELSE @,
         !.squaresSpared = IF cls = "Square" THEN FALSE ELSE @,
         !.staticId = @ + 1,
         !.shapes = Append(@, s)]

\* the tuples on which processLevelData or spawnShape throws
Malformed(data) ==
  \/ Len(data) \notin {1, 2, 3, 10}
  \/ Len(data) = 10 /\ ClassOfLabel(data[1]) = "none"

\* Level.processLevelData, dispatching on the length of the tuple
processLevelData(g, data) ==
  IF Len(data) = 1 THEN [g EXCEPT !.levelPassableScore = data[1]]
  ELSE IF Len(data) = 2 THEN g
  ELSE IF Len(data) = 3 THEN spawnArchitecture(g, data[2], data[3])
  ELSE spawnShape(g, data[1], data[2], data[3], data[4], data[5], data[6],
                  data[8])

\* a forEach that passes over a malformed tuple and goes on with the next
RECURSIVE processSkippingMalformed(_, _, _)
processSkippingMalformed(g, levelData, k) ==
  IF k > Len(levelData) THEN g
  ELSE processSkippingMalformed(
         IF Malformed(levelData[k]) THEN g
         ELSE processLevelData(g, levelData[k]),
         levelData, k + 1)

\* the forEach of Level.loadLevel, which a throw leaves
RECURSIVE processFrom(_, _, _)
processFrom(g, levelData, k) ==
  IF k > Len(levelData) \/ Malformed(levelData[k]) THEN g
  ELSE processFrom(processLevelData(g, levelData[k]), levelData, k + 1)

\* a reset of the power-ups that leaves the time scale as it is
resetPowerUpsKeepingTimeScale(g) ==
  LET g1 == finishIntangible([g EXCEPT !.intangibleActive = FALSE])
      g2 == removeTimer(g1, "finishSlowtime")
  IN  [g2 EXCEPT !.slowtimeActive = FALSE, !.slowtime = FALSE]

\* Level.resetPowerUpsAndEffects
resetPowerUpsAndEffects(g) ==
  LET g1 == finishIntangible([g EXCEPT !.intangibleActive = FALSE])
      g2 == removeTimer(g1, "finishSlowtime")
  IN  finishSlowtime([g2 EXCEPT !.slowtimeActive = FALSE])

\* Level.resetLevelState
resetLevelState(g) ==
  LET g1 == resetPowerUpsAndEffects(
              [g EXCEPT !.staticId = 0, !.squaresSpared = TRUE,
                        !.architectureSpared = TRUE,
                        !.trianglesSpared = TRUE])
  IN  [hideHealthBarInstant(g1) EXCEPT !.showAreaHP = FALSE,
                                       !.messageText = "none"]

\* Level.loadLevel
loadLevel(g, levelData) ==
  processFrom(resetLevelState(g), levelData, 1)

\* GameScene.loadCurrentLevel
loadCurrentLevel(g) ==
  LET g1 == clearShapesNoSound([removeAllEvents(g) EXCEPT !.score = 0])
      g2 == [g1 EXCEPT !.shapes = SelectSeq(@, LAMBDA s : ~s.toBeRemoved),
                       !.loads = @ + 1]
  IN  IF g.currentLevelIndex + 1 \in 1..Len(Levels(g))
        THEN loadLevel(g2, Levels(g)[g.currentLevelIndex + 1])
        ELSE resetLevelState(g2)

(***************************************************************************)
(* Level: clearance and the per-frame update.                              *)
(***************************************************************************)
\* GameScene.unlockAchievement
unlockAchievement(g, name) ==
  [g EXCEPT !.achievements = @ \cup {name}]

\* the outcome with a strict comparison: a level whose score only equals the
\* threshold would fail
ClearedStrict(g) == g.score > g.levelPassableScore

\* the outcome of the clearance check
Cleared(g) == g.score >= g.levelPassableScore

\* the achievements of the clearance check
clearanceAchievements(g) ==
  IF ~g.squaresSpared /\ ~g.architectureSpared
    THEN IF ~g.trianglesSpared
           THEN unlockAchievement(unlockAchievement(g, "Friendly-Fire"),
                                  "Destructive")
           ELSE unlockAchievement(g, "Friendly-Fire")
    ELSE g

\* Level.checkLevelCleared
checkLevelCleared(g) ==
  IF Len(g.shapes) = 0
    THEN LET g1 == hideHealthBarInstant([g EXCEPT !.showAreaHP = FALSE])
             g2 == clearanceAchievements(g1)
             g3 == [g2 EXCEPT !.messageText =
                      IF Cleared(g) THEN "Level Cleared!" ELSE "Level Failed"]
         IN  delayedCall(g3, OutcomeDelay,
                         IF Cleared(g) THEN "loadNextLevel"
                                       ELSE "loadCurrentLevel")
    ELSE g

\* the body of the forEach of Level.update for the shape at index k
updateShapeAt(g, k) ==
  LET s == ShapeUpdate(g.shapes[k], Delta, g.difficultyAdjustment,
                       g.slowtimeFactor)
      g1 == [g EXCEPT !.shapes[k] = s]
      below == s.y > Height + DeathPlaneMargin
      g2 == IF ~s.dying /\ below
              THEN LET r == removeShape(g1, k)
                       f == [r EXCEPT
                               !.squaresSpared =
                                  IF instanceOf(s.cls, "Square") THEN TRUE ELSE @,
                               !.architectureSpared =
                                  IF instanceOf(s.cls, "Architecture") THEN TRUE ELSE @,
                               !.trianglesSpared =
                                  IF instanceOf(s.cls, "Triangle") THEN TRUE ELSE @]
                   IN  IF instanceOf(s.cls, "Area") THEN hideHealthBar(f) ELSE f
              ELSE g1
  IN  IF ~s.dying /\ instanceOf(s.cls, "Area") /\ s.y > 0 /\ ~g2.showAreaHP
        THEN [showHealthBar(g2) EXCEPT !.showAreaHP = TRUE]
        ELSE g2

RECURSIVE updateShapesFrom(_, _)
updateShapesFrom(g, k) ==
  IF k > Len(g.shapes) THEN g
  ELSE updateShapesFrom(updateShapeAt(g, k), k + 1)

\* the flag of Level.update that forces the clear: only architecture that
\* does not move down, and areas, are left
OnlyArchitecture(g) ==
  \A k \in 1..Len(g.shapes) :
    LET s == g.shapes[k]
    IN  /\ instanceOf(s.cls, "Architecture") \/ instanceOf(s.cls, "Area")
        /\ ~(instanceOf(s.cls, "Architecture") /\ s.velocityY > 0)

\* an update that never forces the clear: architecture that does not move
\* stays on the list for good
levelUpdateWithoutForcedClear(g) ==
  LET g1 == updateShapesFrom(g, 1)
      g3 == [g1 EXCEPT !.shapes = SelectSeq(@, LAMBDA s : ~s.toBeRemoved)]
  IN  IF Len(g3.shapes) < Len(g1.shapes) THEN checkLevelCleared(g3) ELSE g3

\* an update that runs the clearance check once for every shape its purge
\* takes off the list
levelUpdateCheckingEachPurged(g) ==
  LET g1 == updateShapesFrom(g, 1)
      g2 == IF OnlyArchitecture(g1)
              THEN clearShapesNoSound([g1 EXCEPT !.architectureSpared = TRUE])
              ELSE g1
      g3 == [g2 EXCEPT !.shapes = SelectSeq(@, LAMBDA s : ~s.toBeRemoved)]
      purged == Len(g2.shapes) - Len(g3.shapes)
  IN  IF purged >= 2 THEN checkLevelCleared(checkLevelCleared(g3))
      ELSE IF purged = 1 THEN checkLevelCleared(g3)
      ELSE g3

\* Level.update
levelUpdate(g) ==
  LET g1 == updateShapesFrom(g, 1)
      g2 == IF OnlyArchitecture(g1)
              THEN clearShapesNoSound([g1 EXCEPT !.architectureSpared = TRUE])
              ELSE g1
      g3 == [g2 EXCEPT !.shapes = SelectSeq(@, LAMBDA s : ~s.toBeRemoved)]
  IN  IF Len(g3.shapes) < Len(g2.shapes) THEN checkLevelCleared(g3) ELSE g3

(***************************************************************************)
(* GameScene: the session.                                                 *)
(***************************************************************************)
\* the number of targets of a script: its maximum score
MaxScore(levelData) ==
  Cardinality({k \in 1..Len(levelData) :
                 /\ Len(levelData[k]) = 10
                 /\ ClassOfLabel(levelData[k][1]) # "none"
                 /\ instanceOf(ClassOfLabel(levelData[k][1]), "Triangle")})

MaxName == <<"Max-0", "Max-1", "Max-2", "Max-3">>
WinName == <<"Win-0", "Win-1", "Win-2", "Win-3">>

\* the body of the first loop of loadNextLevel for one difficulty index
recordScore(g, currIndex) ==
  LET row == g.achievedScores[currIndex]
      lvl == g.currentLevelIndex + 1
      row1 == IF lvl <= Len(row) /\ row[lvl] # 0
                THEN [row EXCEPT ![lvl] = IF @ > g.score THEN @ ELSE g.score]
                ELSE Append(row, g.score)
      g1 == [g EXCEPT !.achievedScores[currIndex] = row1]
      all == /\ Len(row1) = Len(Levels(g))
             /\ \A k \in 1..Len(row1) : row1[k] = MaxScore(Levels(g)[k])
  IN  IF all
        THEN unlockAchievement(g1, MaxName[currIndex + 1])
        ELSE g1

RECURSIVE recordScoresFrom(_, _)
recordScoresFrom(g, currIndex) ==
  IF currIndex > g.difficultyIndex THEN g
  ELSE recordScoresFrom(recordScore(g, currIndex), currIndex + 1)

\* GameScene.loadNextLevel
loadNextLevel(g) ==
  LET g1 == recordScoresFrom(g, 0)
      g2 == [g1 EXCEPT !.currentLevelIndex = @ + 1]
  IN  IF g2.currentLevelIndex = Len(Levels(g))
        THEN [g2 EXCEPT !.phase = "won",
                !.achievements =
                   @ \cup {WinName[c + 1] : c \in 0..g.difficultyIndex}]
        ELSE [g2 EXCEPT !.phase = "levelselect"]

\* GameScene.setDifficulty
setDifficulty(g, difficulty) ==
  [g EXCEPT !.difficultyAdjustment = DifficultyAdjustmentOf[difficulty],
            !.difficultyIndex =
               CHOOSE k \in 0..3 : Difficulties[k + 1] = difficulty]

\* the pointerdown handler of a difficulty button of the escape menu:
\* setDifficulty, then LevelSelect.show.  Nothing is loaded and the level
\* that runs keeps running under the level select.
changeDifficulty(g, difficulty) ==
  [setDifficulty(g, difficulty) EXCEPT !.phase = "levelselect"]

\* GameScene.handleEscape while the level select is shown over a running
\* level: the level select is hidden
handleEscape(g) ==
  IF g.phase = "levelselect" /\ g.shapes # <<>>
    THEN [g EXCEPT !.phase = "game"]
    ELSE g

\* the callback of a timer event
Callback(g, e) ==
  CASE e.kind = "finishIntangible" -> finishIntangible(g)
    [] e.kind = "finishSlowtime" -> finishSlowtime(g)
    [] e.kind = "loadNextLevel" -> loadNextLevel(g)
    [] e.kind = "loadCurrentLevel" -> loadCurrentLevel(g)
    [] e.kind = "grow" -> initiateGrowing(g, e)

(***************************************************************************)
(* One frame of the scene: the clock fires its due timers in the order of  *)
(* their insertion, the tween manager advances the tweens, then            *)
(* Level.update runs.  Timers and tweens created during a frame are taken  *)
(* up at the start of the next one.                                        *)
(***************************************************************************)
\* the start of a frame: pending timers and tweens become active and the
\* clock adds the scaled delta to every timer
frameStart(g) ==
  LET live == SelectSeq(g.events, LAMBDA e : ~e.removed /\ ~e.hasDispatched)
      all == live \o g.pendingInsertion
      scaled == (Delta * g.slowtimeFactor) \div 10
  IN  [g EXCEPT
         !.events = [k \in 1..Len(all) |->
                       [all[k] EXCEPT !.elapsed = @ + scaled]],
         !.pendingInsertion = <<>>,
         !.shapes = [k \in 1..Len(g.shapes) |->
                       LET s == g.shapes[k]
                           t == s.growingTween
                       IN  [s EXCEPT
                              !.fadeActive = (s.fade >= 0),
                              !.growingTween =
                                 IF t.to # 0 /\ t.elapsed < 0
                                   THEN [t EXCEPT !.elapsed = 0,
                                                  !.from = s.scaleFactor]
                                   ELSE t]],
         !.healthBar.fades = [k \in 1..Len(g.healthBar.fades) |->
                                IF g.healthBar.fades[k].elapsed < 0
                                  THEN [g.healthBar.fades[k] EXCEPT !.elapsed = 0]
                                  ELSE g.healthBar.fades[k]],
         !.healthBar.dyingActive = (g.healthBar.dyingTween >= 0)]

\* the timers the clock has still to fire in this frame
Due(g) ==
  {k \in 1..Len(g.events) :
     g.events[k].elapsed >= g.events[k].delay /\ ~g.events[k].done}

FirstDue(g) == CHOOSE k \in Due(g) : \A j \in Due(g) : k <= j

\* the clock fires one due timer: a removed timer (TimerEvent.remove) is
\* dropped silently, every other one runs its callback
fireTimer(g, k) ==
  LET e == g.events[k]
      g1 == [g EXCEPT !.events[k].done = TRUE, !.events[k].removed = TRUE]
  IN  IF e.hasDispatched THEN g1 ELSE Callback(g1, e)

\* a completion of the depletion that leaves the score as it is
depletedKeepingScore(g) ==
  [clearShapesNoSound(g) EXCEPT !.healthBar.dyingTween = -1,
                                !.healthBar.dyingActive = FALSE,
                                !.healthBar.fillGone = TRUE]

\* the completion of the depletion tween of the health bar
depleted(g) ==
  [clearShapesNoSound(g) EXCEPT !.score = 0, !.healthBar.dyingTween = -1,
                                !.healthBar.dyingActive = FALSE,
                                !.healthBar.fillGone = TRUE]

\* the tween manager's update: death fades, health bar fades, depletion
tweensUpdate(g) ==
  LET faded(s) ==
        IF s.fadeActive /\ ~s.toBeRemoved
          THEN IF s.fade + Delta >= FadeDuration
                 THEN [s EXCEPT !.fade = FadeDuration, !.toBeRemoved = TRUE]
                 ELSE [s EXCEPT !.fade = @ + Delta]
          ELSE s
      grown(s) ==
        LET t == s.growingTween
            elapsed == t.elapsed + (Delta * t.timeScale) \div 10
        IN  IF t.to = 0 \/ t.elapsed < 0 \/ t.elapsed >= t.duration THEN s
            ELSE IF elapsed >= t.duration
              THEN [s EXCEPT !.scaleFactor = t.to,
                             !.growingTween.elapsed = t.duration]
              ELSE [s EXCEPT !.scaleFactor =
                               t.from + ((t.to - t.from) * elapsed) \div t.duration,
                             !.growingTween.elapsed = elapsed]
      g1 == [g EXCEPT !.shapes =
               [k \in 1..Len(g.shapes) |-> grown(faded(g.shapes[k]))]]
      f == g.healthBar.fades
      running == {k \in 1..Len(f) : f[k].elapsed >= 0}
      finished == {k \in running : f[k].elapsed + Delta >= HealthFadeDuration}
      last == IF running = {} THEN 0
              ELSE CHOOSE k \in running : \A j \in running : j <= k
      aged == [k \in 1..Len(f) |->
                 IF k \in running THEN [f[k] EXCEPT !.elapsed = @ + Delta]
                 ELSE f[k]]
      g2 == IF last = 0 THEN g1
            ELSE LET h == [g1 EXCEPT
                             !.healthBar.alpha =
                                IF last \in finished THEN f[last].to ELSE 50,
                             !.healthBar.fades =
                                SelectSeq(aged, LAMBDA t :
                                  t.elapsed < HealthFadeDuration)]
                 IN  IF \E k \in finished : f[k].to = 0
                       THEN refillAndPauseHealthBar(h) ELSE h
  IN  IF g2.healthBar.dyingActive /\ g2.healthBar.dyingTween >= 0
        THEN IF g2.healthBar.dyingTween + Delta >= DepleteDuration
               THEN depleted(g2)
               ELSE [g2 EXCEPT !.healthBar.dyingTween = @ + Delta]
        ELSE g2

\* timers that are gone need no place in the state between two frames
Tidy(g) ==
  [g EXCEPT !.events =
     SelectSeq(@, LAMBDA e : ~e.removed /\ ~e.hasDispatched)]

(***************************************************************************)
(* The keyboard handlers of GameScene.create.                              *)
(***************************************************************************)
\* keydown-E
keydownE(g) ==
  IF ~g.intangibleActive /\ ~g.intangible THEN g
  ELSE IF g.intangible
    THEN finishIntangible(removeTimer(g, "finishIntangible"))
    ELSE delayedCall(adjustActiveTweens([g EXCEPT !.intangibleActive = FALSE,
                                                  !.intangible = TRUE]),
                     IntangibleDuration, "finishIntangible")

\* a keydown-S whose timer is not shortened by the time scale: under the
\* slowed clock it would run for thirty seconds
keydownSUnscaledTimer(g) ==
  IF ~g.slowtimeActive /\ ~g.slowtime THEN g
  ELSE IF g.slowtime
    THEN finishSlowtime(removeTimer(g, "finishSlowtime"))
    ELSE LET g1 == setSlowtimeFactor(g, SlowFactor)
         IN  delayedCall([g1 EXCEPT !.slowtime = TRUE,
                                    !.slowtimeActive = FALSE],
                         SlowtimeDuration, "finishSlowtime")

\* a keydown-S whose second press ends slow time and leaves its timer in
\* the clock
keydownSLeavingTimer(g) ==
  IF ~g.slowtimeActive /\ ~g.slowtime THEN g
  ELSE IF g.slowtime
    THEN finishSlowtime(g)
    ELSE LET g1 == setSlowtimeFactor(g, SlowFactor)
         IN  delayedCall([g1 EXCEPT !.slowtime = TRUE,
                                    !.slowtimeActive = FALSE],
                         (SlowtimeDuration * g1.slowtimeFactor) \div 10,
                         "finishSlowtime")

\* keydown-S
keydownS(g) ==
  IF ~g.slowtimeActive /\ ~g.slowtime THEN g
  ELSE IF g.slowtime
    THEN finishSlowtime(removeTimer(g, "finishSlowtime"))
    ELSE LET g1 == setSlowtimeFactor(g, SlowFactor)
         IN  delayedCall([g1 EXCEPT !.slowtime = TRUE,
                                    !.slowtimeActive = FALSE],
                         (SlowtimeDuration * g1.slowtimeFactor) \div 10,
                         "finishSlowtime")

\* MainMenu.hide: the buttons and the background are destroyed and the time
\* factor is set to normal; Level.slowtime is not touched
mainMenuHide(g) == setSlowtimeFactor(g, NormalFactor)

\* keydown-R
keydownR(g) == loadCurrentLevel(removeAllEvents(g))

\* MainMenu.startCutscene up to the end of GameScene.endCutscene
startGame(g, difficulty) ==
  LET g1 == setSlowtimeFactor(setDifficulty(g, difficulty), NormalFactor)
      g2 == [removeAllEvents(g1) EXCEPT !.currentLevelIndex = 0,
                                        !.phase = "game"]
  IN  loadCurrentLevel(g2)

\* the pointerdown handler of a level button of LevelSelect
selectLevel(g, level) ==
  [loadCurrentLevel([g EXCEPT !.currentLevelIndex = level - 1])
     EXCEPT !.phase = "game"]

(***************************************************************************)
(* The state machine.  Between two frames (pc = "idle") the player acts;   *)
(* a frame runs the clock, the tween manager and Level.update in turn.     *)
(***************************************************************************)
Put(g) ==
  /\ shapes' = g.shapes /\ score' = g.score
  /\ levelPassableScore' = g.levelPassableScore
  /\ squaresSpared' = g.squaresSpared
  /\ architectureSpared' = g.architectureSpared
  /\ trianglesSpared' = g.trianglesSpared /\ showAreaHP' = g.showAreaHP
  /\ intangibleActive' = g.intangibleActive /\ intangible' = g.intangible
  /\ slowtimeActive' = g.slowtimeActive /\ slowtime' = g.slowtime
  /\ slowtimeFactor' = g.slowtimeFactor
  /\ difficultyAdjustment' = g.difficultyAdjustment
  /\ difficultyIndex' = g.difficultyIndex
  /\ currentLevelIndex' = g.currentLevelIndex
  /\ events' = g.events /\ pendingInsertion' = g.pendingInsertion
  /\ staticId' = g.staticId /\ healthBar' = g.healthBar
  /\ achievements' = g.achievements /\ achievedScores' = g.achievedScores
  /\ messageText' = g.messageText /\ pointer' = g.pointer
  /\ phase' = g.phase /\ loads' = g.loads /\ build' = g.build

Init ==
  /\ shapes = <<>> /\ score = 0 /\ levelPassableScore = 0
  /\ squaresSpared = TRUE /\ architectureSpared = TRUE
  /\ trianglesSpared = TRUE /\ showAreaHP = FALSE
  /\ intangibleActive = FALSE /\ intangible = FALSE
  /\ slowtimeActive = FALSE /\ slowtime = FALSE
  /\ slowtimeFactor = NormalFactor
  /\ difficultyAdjustment = 0 /\ difficultyIndex = 0
  /\ currentLevelIndex = 0
  /\ events = <<>> /\ pendingInsertion = <<>> /\ staticId = 0
  /\ healthBar = [dyingTween |-> -1, dyingActive |-> FALSE, alpha |-> 0,
                  fillGone |-> FALSE,
                  fades |-> <<>>]
  /\ achievements = {}
  /\ build \in 1..Len(Builds)
  /\ achievedScores = [c \in 0..3 |->
                         IF c = 1 THEN [k \in 1..(Len(Builds[build]) - 1) |-> 0]
                         ELSE <<>>]
  /\ messageText = "none" /\ pointer = <<10, 10>>
  /\ phase = "menu" /\ loads = 0 /\ pc = "idle"

\* the difficulties the player starts a game with
PlayedDifficulties == {"Easy", "Medium", "Hard"}

\* the places the player moves the pointer to: the position of a shape, the
\* point 25 pixels below the position of a triangle or of a piece of
\* architecture, or a free corner of the screen
PointerOffsets(s) ==
  IF s.cls = "Architecture" THEN {<<0, 25>>}
  ELSE IF s.cls = "Triangle" THEN {<<0, 0>>, <<0, 25>>}
  ELSE {<<0, 0>>}

PointerTargets ==
  {<<10, 10>>} \cup
  UNION {{<<shapes[i].x + o[1], shapes[i].graphicsY + o[2]>> :
            o \in PointerOffsets(shapes[i])} : i \in 1..Len(shapes)}

MovePointer ==
  /\ pc = "idle"
  /\ \E p \in PointerTargets :
       /\ p # pointer
       /\ p[1] \in 0..Width /\ p[2] \in 0..Height
       /\ Put([Game EXCEPT !.pointer = p])
  /\ UNCHANGED pc

\* the depth of the graphics: architecture is drawn above the other
\* shapes, a dying shape is moved below them
Depth(s) ==
  IF s.dying THEN -1 ELSE IF s.cls = "Architecture" THEN 2 ELSE 0

\* the input plugin hands a pointer event to the topmost object under the
\* pointer only: the greatest depth, and among equals the one added last
TopMost(i) ==
  /\ HitTest(shapes[i], pointer)
  /\ \A j \in 1..Len(shapes) :
       (j # i /\ HitTest(shapes[j], pointer))
       => \/ Depth(shapes[j]) < Depth(shapes[i])
          \/ Depth(shapes[j]) = Depth(shapes[i]) /\ j < i

\* pointerover on the graphics of the shape at index i
HoverAt(i) ==
  /\ pc = "idle"
  /\ TopMost(i)
  /\ Put(Tidy(handleShapeInteraction(Game, i, shapes[i].shapeType)))
  /\ UNCHANGED pc

Hover == \E i \in 1..Len(shapes) : HoverAt(i)

\* pointerout on the graphics of an area
PointerOut ==
  /\ pc = "idle"
  /\ \E i \in 1..Len(shapes) :
       /\ shapes[i].shapeType = "area"
       /\ ~shapes[i].toBeRemoved
       /\ ~HitTest(shapes[i], pointer)
       /\ Put(decreaseHealthBar(Game))
  /\ UNCHANGED pc

\* pointerdown on the graphics of the armored triangle at index i
ClickAt(i) ==
  /\ pc = "idle"
  /\ startsWith(shapes[i].shapeType, "armored_")
  /\ TopMost(i)
  /\ shapes[i].healthPoints > -MaxOverkill
  /\ Put(takeDamage(Game, i))
  /\ UNCHANGED pc

Click == \E i \in 1..Len(shapes) : ClickAt(i)

KeyE ==
  /\ pc = "idle"
  /\ Put(Tidy(keydownE(Game)))
  /\ UNCHANGED pc

KeyS ==
  /\ pc = "idle"
  /\ Put(Tidy(keydownS(Game)))
  /\ UNCHANGED pc

KeyR ==
  /\ pc = "idle"
  /\ loads < MaxLoads
  /\ Put(Tidy(keydownR(Game)))
  /\ UNCHANGED pc

StartGame ==
  /\ pc = "idle" /\ phase = "menu"
  /\ loads < MaxLoads
  /\ \E difficulty \in PlayedDifficulties :
       Put(Tidy(startGame(Game, difficulty)))
  /\ UNCHANGED pc

\* pointerdown on the Instructions button of the main menu: MainMenu.hide,
\* then the instruction pages, whose last Next button brings the menu back
ShowInstructions ==
  /\ pc = "idle" /\ phase = "menu"
  /\ Put(mainMenuHide(Game))
  /\ UNCHANGED pc

SelectLevel ==
  /\ pc = "idle" /\ phase = "levelselect"
  /\ loads < MaxLoads
  /\ \E level \in 1..Len(Builds[build]) :
       /\ level - 1 < Len(achievedScores[difficultyIndex]) + 1
       /\ Put(Tidy(selectLevel(Game, level)))
  /\ UNCHANGED pc

\* the end of the tweens of the win screen: LevelSelect.show
WinScreenDone ==
  /\ pc = "idle" /\ phase = "won"
  /\ Put([Game EXCEPT !.phase = "levelselect"])
  /\ UNCHANGED pc

\* the builds in which the player is followed through the escape menu
EscapeBuilds == {13}

\* the difficulties the player picks there
PickedDifficulties == {"Hard"}

\* the player opens the escape menu during a level (keydown-ESC, Change
\* Difficulty) and picks a difficulty
ChangeDifficulty ==
  /\ pc = "idle" /\ build \in EscapeBuilds
  /\ phase = "game" \/ (phase = "levelselect" /\ shapes # <<>>)
  /\ \E difficulty \in PickedDifficulties :
       Put(changeDifficulty(Game, difficulty))
  /\ UNCHANGED pc

\* keydown-ESC with the level select shown over a running level
Escape ==
  /\ pc = "idle" /\ build \in EscapeBuilds
  /\ phase = "levelselect" /\ shapes # <<>>
  /\ Put(handleEscape(Game))
  /\ UNCHANGED pc

FrameStart ==
  /\ pc = "idle"
  /\ Put(frameStart(Game))
  /\ pc' = "clock"

TimerFire ==
  /\ pc = "clock"
  /\ Due(Game) # {}
  /\ LET k == FirstDue(Game)
     IN  /\ events[k].kind = "loadCurrentLevel" /\ ~events[k].hasDispatched
              => loads < MaxLoads
         /\ Put(fireTimer(Game, k))
  /\ UNCHANGED pc

TweensUpdate ==
  /\ pc = "clock"
  /\ Due(Game) = {}
  /\ Put(tweensUpdate(Game))
  /\ pc' = "update"

LevelUpdate ==
  /\ pc = "update"
  /\ Put(Tidy(levelUpdate(Game)))
  /\ pc' = "idle"

Next ==
  \/ MovePointer \/ Hover \/ PointerOut \/ Click
  \/ KeyE \/ KeyS \/ KeyR
  \/ StartGame \/ SelectLevel \/ WinScreenDone
  \/ ChangeDifficulty \/ Escape \/ ShowInstructions
  \/ FrameStart \/ TimerFire \/ TweensUpdate \/ LevelUpdate

Spec == Init /\ [][Next]_vars

(***************************************************************************)
(* Properties.  The vocabulary of the specification: an entity is Alive,   *)
(* Dying or Removed; the basic Target is the Triangle, the Concealed       *)
(* Target the StealthTriangle, the Armored Target the ArmoredTriangle, the *)
(* Protected Citizen the Square, the Static Obstacle the Architecture and  *)
(* the Resource Zone the Area.                                             *)
(***************************************************************************)
Live(s) == ~s.dying /\ ~s.toBeRemoved

Lifecycle(s) ==
  IF s.toBeRemoved THEN "Removed" ELSE IF s.dying THEN "Dying" ELSE "Alive"

Friendly(s) == s.cls = "Square" \/ s.cls = "Architecture"

\* a timer of the kind, scheduled during the load now current, is waiting
\* in the clock after the step
ScheduledNext(kind) ==
  \/ \E k \in 1..Len(pendingInsertion') :
       /\ pendingInsertion'[k].kind = kind /\ ~pendingInsertion'[k].hasDispatched
       /\ pendingInsertion'[k].load = loads'
  \/ \E k \in 1..Len(events') :
       /\ events'[k].kind = kind /\ ~events'[k].hasDispatched
       /\ events'[k].load = loads'

\* Level.update has taken the last shapes off the list and run the
\* clearance check on the empty list
ClearanceRan ==
  pc = "update" /\ pc' = "idle" /\ shapes # <<>> /\ shapes' = <<>>

\* intangible mode ends, by its timer or by the E key, within a level
IntangibilityEnds ==
  intangible /\ ~intangible' /\ loads' = loads /\ Len(shapes') = Len(shapes)

\* C1: whenever the clearance check runs with an empty list of shapes, the
\* outcome is Cleared (message "Level Cleared!", next level scheduled)
\* exactly when score >= levelPassableScore at that moment, and Failed
\* (message "Level Failed", retry of the level scheduled) otherwise.
C1_OutcomeByThreshold ==
  [][ClearanceRan =>
       IF score >= levelPassableScore
         THEN /\ messageText' = "Level Cleared!"
              /\ ScheduledNext("loadNextLevel")
              /\ ~ScheduledNext("loadCurrentLevel")
         ELSE /\ messageText' = "Level Failed"
              /\ ScheduledNext("loadCurrentLevel")
              /\ ~ScheduledNext("loadNextLevel")]_vars

\* a level has just been cleared with a score that equals its threshold
C1_ClearedAtThreshold ==
  /\ pc = "idle" /\ shapes = <<>> /\ messageText = "Level Cleared!"
  /\ levelPassableScore > 0 /\ score = levelPassableScore
  /\ \E k \in 1..Len(pendingInsertion) :
       pendingInsertion[k].kind = "loadNextLevel"

\* C2: while intangible mode is active, no hover and no click on a shape
\* other than an area changes the score, the lifecycle state or the health
\* points of any shape, or the armed flag of a power-up.
C2_IntangibleSuppressesPointer ==
  [][\A i \in 1..Len(shapes) :
       (intangible /\ shapes[i].cls # "Area" /\ (HoverAt(i) \/ ClickAt(i)))
       => /\ score' = score
          /\ intangibleActive' = intangibleActive
          /\ slowtimeActive' = slowtimeActive
          /\ Len(shapes') = Len(shapes)
          /\ \A j \in 1..Len(shapes) :
               /\ Lifecycle(shapes'[j]) = Lifecycle(shapes[j])
               /\ shapes'[j].healthPoints = shapes[j].healthPoints]_vars

\* C3: if intangible mode ends while the pointer rests inside a live
\* triangle, that triangle becomes dying and the score goes up by exactly 1.
C3_CatchUpKillsHoveredTarget ==
  [][IntangibilityEnds =>
       \A i \in 1..Len(shapes) :
         (shapes[i].cls = "Triangle" /\ Live(shapes[i])
            /\ HitTest(shapes[i], pointer))
         => shapes'[i].dying /\ score' = score + 1]_vars

\* C4: every click on a live armored triangle takes one health point; while
\* health points remain after the click the triangle stays alive and the
\* score is unchanged, and the click that takes the last one makes it dying
\* and adds 1 to the score.
C4_ArmoredClicks ==
  [][\A i \in 1..Len(shapes) :
       (ClickAt(i) /\ Live(shapes[i]))
       => /\ shapes'[i].healthPoints = shapes[i].healthPoints - 1
          /\ IF shapes[i].healthPoints > 1
               THEN Live(shapes'[i]) /\ score' = score
               ELSE shapes'[i].dying /\ score' = score + 1]_vars

\* an armored triangle spawned with three health points has been clicked
\* down to none: it is dying and has paid once
C4_ThirdClickKilled ==
  \E i \in 1..Len(shapes) :
    /\ shapes[i].shapeType = "armored_3" /\ shapes[i].healthPoints = 0
    /\ shapes[i].dying /\ score = 1 /\ HitTest(shapes[i], pointer)

\* C5: an armored triangle never becomes dying, and never changes the
\* score, by a hover or by the catch-up pass at the end of intangible mode.
C5_ArmoredOnlyByClick ==
  [][\A i \in 1..Len(shapes) :
       (shapes[i].cls = "ArmoredTriangle"
          /\ (HoverAt(i) \/ (IntangibilityEnds /\ HitTest(shapes[i], pointer))))
       => /\ shapes'[i].dying = shapes[i].dying
          /\ (\A j \in 1..Len(shapes) :
                j # i => ~HitTest(shapes[j], pointer)
                         /\ ~CatchUpContains(shapes[j], pointer))
             => score' = score]_vars

\* C6: a hover or a click on a shape that is already dying or removed
\* changes neither the score, nor the health points of that shape, nor an
\* armed flag of a power-up, nor the lifecycle state of another shape.
C6_DeadTargetNoOp ==
  [][\A i \in 1..Len(shapes) :
       (~Live(shapes[i]) /\ (HoverAt(i) \/ ClickAt(i)))
       => /\ score' = score
          /\ intangibleActive' = intangibleActive
          /\ slowtimeActive' = slowtimeActive
          /\ Len(shapes') = Len(shapes)
          /\ shapes'[i].healthPoints = shapes[i].healthPoints
          /\ \A j \in 1..Len(shapes) :
               j # i => Lifecycle(shapes'[j]) = Lifecycle(shapes[j])]_vars

\* C7: the health points of an armored triangle stay between 0 and the
\* number it was spawned with, never increase, and 0 health points mean
\* that the triangle is dying or removed.
C7_HealthPointsRange ==
  [][\A j \in 1..Len(shapes') :
       shapes'[j].cls = "ArmoredTriangle"
       => /\ shapes'[j].healthPoints >= 0
          /\ shapes'[j].healthPoints <= parseLastDigit(shapes'[j].shapeType)
          /\ shapes'[j].healthPoints = 0 => ~Live(shapes'[j])
          /\ \A i \in 1..Len(shapes) :
               shapes[i].uid = shapes'[j].uid
               => shapes'[j].healthPoints <= shapes[i].healthPoints]_vars

\* C8: a hover on a live triangle while not intangible makes it dying and
\* adds exactly 1 to the score; a hover on a live square or a live piece of
\* architecture while not intangible makes it dying and takes exactly 1
\* from the score.
C8_HoverScores ==
  [][\A i \in 1..Len(shapes) :
       (HoverAt(i) /\ Live(shapes[i]) /\ ~intangible)
       => /\ shapes[i].cls = "Triangle"
               => shapes'[i].dying /\ score' = score + 1
          /\ Friendly(shapes[i])
               => shapes'[i].dying /\ score' = score - 1]_vars

\* a square has been hovered and has cost a point
C8_CitizenPenalised ==
  \E i \in 1..Len(shapes) :
    /\ shapes[i].cls = "Square" /\ shapes[i].dying /\ shapes[i].y <= Height
    /\ score = -1 /\ HitTest(shapes[i], pointer)

\* C9: a hover on a live stealth triangle while not intangible makes it
\* dying and adds exactly 1 to the score, whatever label with the prefix
\* "stealth" it was spawned from.
C9_ConcealedHoverScores ==
  [][\A i \in 1..Len(shapes) :
       (HoverAt(i) /\ Live(shapes[i]) /\ ~intangible
          /\ shapes[i].cls = "StealthTriangle")
       => shapes'[i].dying /\ score' = score + 1]_vars

\* C10, as the code has it: a hover on a live clear-friendlies upgrade while
\* not intangible removes every live square and piece of architecture whose
\* y is above -300 times the square of the upgrade's scale factor, and
\* leaves the others in their lifecycle state.
C10_ClearsAboveScaledThreshold ==
  [][\A i \in 1..Len(shapes) :
       (HoverAt(i) /\ Live(shapes[i]) /\ ~intangible
          /\ shapes[i].cls = "ClearFriendlies")
       => /\ Len(shapes') = Len(shapes)
          /\ \A j \in 1..Len(shapes) :
               Friendly(shapes[j])
               => IF shapes[j].y * 10000 >
                       -ClearThreshold * shapes[i].scaleFactor
                                       * shapes[i].scaleFactor
                    THEN shapes'[j].dying
                    ELSE Lifecycle(shapes'[j]) = Lifecycle(shapes[j])]_vars

\* C10, as stated: the threshold is one fixed line, y = -300.
C10_ClearsAboveFixedThreshold ==
  [][\A i \in 1..Len(shapes) :
       (HoverAt(i) /\ Live(shapes[i]) /\ ~intangible
          /\ shapes[i].cls = "ClearFriendlies")
       => /\ Len(shapes') = Len(shapes)
          /\ \A j \in 1..Len(shapes) :
               Friendly(shapes[j])
               => IF shapes[j].y > -ClearThreshold
                    THEN shapes'[j].dying
                    ELSE Lifecycle(shapes'[j]) = Lifecycle(shapes[j])]_vars

\* the upgrade has taken the architecture on the screen and left the
\* square that is still far above it
C10_ClearedVisibleOnly ==
  \E i, j, k \in 1..Len(shapes) :
    /\ shapes[i].cls = "ClearFriendlies" /\ shapes[i].dying
    /\ HitTest(shapes[i], pointer)
    /\ shapes[j].cls = "Architecture" /\ shapes[j].dying
    /\ shapes[j].y = Height + OffScreenDrop
    /\ shapes[k].cls = "Square" /\ Live(shapes[k])
    /\ shapes[k].y <= -ClearThreshold

\* C11: intangible mode becomes armed only by a hover on a live intangible
\* upgrade while not intangible, so that every upgrade spawned pays for at
\* most one activation.
C11_ArmedOnlyByLivePowerUp ==
  [][(~intangibleActive /\ intangibleActive')
       => \E i \in 1..Len(shapes) :
            /\ shapes[i].cls = "Intangible" /\ Live(shapes[i])
            /\ ~intangible /\ HoverAt(i)]_vars

\* the timers of one kind that the clock still holds and will fire
LiveTimers(evs, kind) ==
  {k \in 1..Len(evs) :
     evs[k].kind = kind /\ ~evs[k].hasDispatched /\ ~evs[k].removed}

\* C12: S pressed while slow time is armed and not running sets the time
\* scale to 0.1, clears the armed flag and sets the running flag; slow time
\* then ends (time scale 1, running flag false) when S is pressed again or
\* when its timer has run for 3 seconds of real time, and while it runs that
\* timer is in the clock with no more than 3 seconds behind it.
C12_SlowTimeRuns ==
  [][/\ (KeyS /\ slowtimeActive /\ ~slowtime)
          => slowtimeFactor' = SlowFactor /\ ~slowtimeActive' /\ slowtime'
     /\ (KeyS /\ slowtime)
          => ~slowtime' /\ slowtimeFactor' = NormalFactor
     /\ (slowtime /\ ~slowtime' /\ loads' = loads)
          => /\ slowtimeFactor' = NormalFactor
             /\ \/ KeyS
                \/ /\ pc = "clock" /\ Due(Game) # {}
                   /\ events[FirstDue(Game)].kind = "finishSlowtime"
                   /\ events[FirstDue(Game)].elapsed * 10
                        = SlowtimeDuration * slowtimeFactor
     /\ slowtime'
          => /\ slowtimeFactor' = SlowFactor
             /\ \E k \in LiveTimers(events' \o pendingInsertion',
                                    "finishSlowtime") :
                  LET e == (events' \o pendingInsertion')[k]
                  IN  /\ e.delay * 10 = SlowtimeDuration * SlowFactor
                      /\ e.elapsed <= e.delay]_vars

\* the timer of slow time has just fired, three seconds after S
C12_SlowTimeTimedOut ==
  /\ pc = "clock" /\ ~slowtime /\ slowtimeFactor = NormalFactor
  /\ \E k \in 1..Len(events) :
       /\ events[k].kind = "finishSlowtime" /\ events[k].done
       /\ ~events[k].hasDispatched
       /\ events[k].elapsed * 10 = SlowtimeDuration * SlowFactor

\* C13: intangible mode ends by itself one second of real time after its
\* activation, slow time or not: when the clock has fired its timers in a
\* frame of one second or more, intangible mode is no longer on.
C13_IntangibleEndsInRealTime ==
  (pc = "update" /\ Delta >= IntangibleDuration) => ~intangible

\* the shapes in the list that the latest load spawned
SpawnedByLoad(ss, n) == {j \in 1..Len(ss) : ss[j].uid >= 100 * n}

\* a load of a level that the build has
LoadCompletes ==
  loads' = loads + 1 /\ currentLevelIndex' + 1 \in 1..Len(Builds[build])

\* C14: right after a level load both power-ups are neither armed nor
\* running, the time scale is 1, and each of the three spared flags is false
\* exactly when the script spawned a shape of its class.
C14_LoadResetsFlags ==
  [][LoadCompletes =>
       LET new == SpawnedByLoad(shapes', loads')
       IN  /\ ~intangibleActive' /\ ~intangible'
           /\ ~slowtimeActive' /\ ~slowtime'
           /\ slowtimeFactor' = NormalFactor
           /\ squaresSpared' = ~(\E j \in new : shapes'[j].cls = "Square")
           /\ architectureSpared' =
                ~(\E j \in new : shapes'[j].cls = "Architecture")
           /\ trianglesSpared' =
                ~(\E j \in new : instanceOf(shapes'[j].cls, "Triangle"))]_vars

\* a level with triangles and squares and without architecture has just
\* been loaded over the shapes of the load before
C14_ReloadedOverOldShapes ==
  /\ pc = "idle" /\ loads = 2
  /\ \E j \in 1..Len(shapes) : shapes[j].uid < 100 * loads
  /\ \A j \in SpawnedByLoad(shapes, loads) :
       Live(shapes[j]) /\ shapes[j].y = shapes[j].graphicsY
                       /\ shapes[j].rotation = 0
  /\ \E j \in SpawnedByLoad(shapes, loads) : shapes[j].cls = "Square"
  /\ ~squaresSpared /\ ~trianglesSpared /\ architectureSpared
  /\ ~slowtime /\ slowtimeFactor = NormalFactor

\* C15: right after a level load the list of shapes holds only shapes that
\* this load spawned, none of the load before.
C15_OnlyNewShapesAfterLoad ==
  [][LoadCompletes =>
       \A j \in 1..Len(shapes') : j \in SpawnedByLoad(shapes', loads')]_vars

\* C16: after a reload no timer that was scheduled before it fires against
\* a shape of the new load: the callback of such a timer leaves the
\* position, the scale, the velocity and the lifecycle state of every shape
\* that the latest load spawned as they are.
C16_NoStaleCallbackOnNewShapes ==
  [][(/\ pc = "clock" /\ Due(Game) # {}
      /\ ~events[FirstDue(Game)].hasDispatched
      /\ events[FirstDue(Game)].load < loads)
       => \A i \in SpawnedByLoad(shapes, loads) :
            \E j \in 1..Len(shapes') :
              /\ shapes'[j].uid = shapes[i].uid
              /\ shapes'[j].x = shapes[i].x /\ shapes'[j].y = shapes[i].y
              /\ shapes'[j].scaleFactor = shapes[i].scaleFactor
              /\ shapes'[j].velocityX = shapes[i].velocityX
              /\ shapes'[j].velocityY = shapes[i].velocityY
              /\ Lifecycle(shapes'[j]) = Lifecycle(shapes[i])]_vars

\* Level.update runs: the step from pc = "update" back to pc = "idle"
UpdateRuns == pc = "update" /\ pc' = "idle"

\* architecture that does not move down
StaticObstacle(s) == s.cls = "Architecture" /\ s.velocityY <= 0

\* no shape of the list is alive after the step
NoneLiveNext == \A j \in 1..Len(shapes') : ~Live(shapes'[j])

\* C17 (as amended): when the list holds at least one live shape and every
\* shape on it, the dying and the removed ones included, is a Static Obstacle
\* that does not move down, one update with no pointer interaction leaves no
\* live shape on the list.
C17_StaticListForceCleared ==
  [][(/\ UpdateRuns
      /\ \E k \in 1..Len(shapes) : Live(shapes[k])
      /\ \A k \in 1..Len(shapes) : StaticObstacle(shapes[k]))
     => NoneLiveNext]_vars

\* C17 (as stated): when the live shapes of the list are all Static
\* Obstacles that do not move down, one update with no pointer interaction
\* drops the number of live shapes to 0.
C17_StaticLiveForceCleared ==
  [][(/\ UpdateRuns
      /\ \E k \in 1..Len(shapes) : Live(shapes[k])
      /\ \A k \in 1..Len(shapes) : Live(shapes[k]) => StaticObstacle(shapes[k]))
     => NoneLiveNext]_vars

\* the update has forced the clear of the architecture that was alone on
\* the list: it fades below the screen and is recorded as spared
C17_ForcedClearDone ==
  /\ pc = "idle" /\ phase = "game" /\ Len(shapes) = 1
  /\ shapes[1].cls = "Architecture" /\ shapes[1].dying
  /\ ~shapes[1].toBeRemoved
  /\ shapes[1].y = Height + OffScreenDrop
  /\ shapes[1].uid >= 100 * loads
  /\ architectureSpared

\* the outcome callbacks, scheduled by the clearance check, among the timers
\* that wait for their insertion
OutcomeCalls(q) ==
  Cardinality({k \in 1..Len(q) :
                 q[k].kind \in {"loadNextLevel", "loadCurrentLevel"}})

\* C18: one update runs the clearance check at most once, on the list as the
\* purge has left it, and exactly once when the purge has taken shapes off
\* the list, however many: the update schedules one outcome callback when
\* its purge has emptied the list and none otherwise.
C18_ClearanceCheckedOncePerUpdate ==
  [][UpdateRuns =>
       LET n == OutcomeCalls(pendingInsertion') - OutcomeCalls(pendingInsertion)
       IN  /\ n \in {0, 1}
           /\ n = 1 <=> (Len(shapes') < Len(shapes) /\ shapes' = <<>>)
           /\ n = 1 => messageText' # "none"
           /\ n = 0 => messageText' = messageText]_vars

\* the first level of the first build has ended with the triangle and the
\* square gone through the lower boundary in the same update, purged
\* together, and one outcome callback scheduled
C18_TwoPurgedTogether ==
  /\ pc = "idle" /\ build = 1 /\ currentLevelIndex = 0 /\ shapes = <<>>
  /\ squaresSpared /\ trianglesSpared
  /\ messageText = "Level Failed"
  /\ OutcomeCalls(pendingInsertion) = 1

\* the script that the load of the step reads
LoadedScript == Builds[build][currentLevelIndex' + 1]

\* the tuples of a script that spawn a shape and stand before index k
SpawningBefore(data, k) ==
  {m \in 1..(k - 1) : Len(data[m]) \in {3, 10}}

\* C19: the load of a script with a tuple whose length is not 1, 2, 3 or 10,
\* or with a tuple of length 10 whose kind label selects no class, stops at
\* that tuple: the shapes of the new load are those of the tuples before it,
\* none comes from it or from a tuple after it.
C19_LoadStopsAtMalformedTuple ==
  [][LoadCompletes =>
       LET data == LoadedScript
           bad == {k \in 1..Len(data) : Malformed(data[k])}
       IN  bad # {} =>
             LET first == CHOOSE k \in bad : \A m \in bad : k <= m
                 before == SpawningBefore(data, first)
                 new == SpawnedByLoad(shapes', loads')
             IN  /\ Cardinality(new) = Cardinality(before)
                 /\ \A j \in new :
                      \E m \in before :
                        /\ data[m][1] = shapes'[j].shapeType
                        /\ shapes'[j].id = Cardinality(SpawningBefore(data, m))]_vars

\* the script with the label "circle" has been loaded: the triangle before
\* it is there, the square after it is not
C19_LoadedUpToUnknownLabel ==
  /\ build = 6 /\ currentLevelIndex = 1 /\ phase = "game"
  /\ \E j \in SpawnedByLoad(shapes, loads) : shapes[j].shapeType = "triangle"
  /\ \A j \in SpawnedByLoad(shapes, loads) : shapes[j].shapeType = "triangle"
  /\ levelPassableScore = 0

\* the script of the level that is running has a tuple of the kind
ScriptSpawns(label) ==
  /\ currentLevelIndex + 1 \in 1..Len(Builds[build])
  /\ \E k \in 1..Len(Builds[build][currentLevelIndex + 1]) :
       LET data == Builds[build][currentLevelIndex + 1][k]
       IN  Len(data) \in {3, 10} /\ data[1] = label

\* the architecture of the running load that the closing purge takes off the
\* list
ArchitectureLeaving ==
  {k \in SpawnedByLoad(shapes, loads) :
     shapes[k].cls = "Architecture" /\ shapes[k].toBeRemoved}

\* C20: a level that spawned a Protected Citizen and a Static Obstacle ends
\* with Friendly-Fire unlocked when the player killed every one of them by
\* pointer interaction.  No citizen went through the lower boundary
\* (squaresSpared is still false) and the obstacle died on the screen, where
\* only a pointer interaction kills (the lower boundary, the forced clear
\* and a reload all leave a shape below the screen).
C20_FriendlyFireUnlocked ==
  [][(/\ ClearanceRan
      /\ ScriptSpawns("square") /\ ScriptSpawns("architecture")
      /\ ~squaresSpared
      /\ ArchitectureLeaving # {}
      /\ \A k \in ArchitectureLeaving : shapes[k].y <= Height)
     => "Friendly-Fire" \in achievements']_vars

\* the script of the running level spawns a Target
ScriptSpawnsTarget ==
  \E label \in DOMAIN Chars :
    /\ ClassOfLabel(label) # "none"
    /\ instanceOf(ClassOfLabel(label), "Triangle")
    /\ ScriptSpawns(label)

\* a shape that does not move and lies below the screen: a sweep has put it
\* there (clearShapesNoSound at the depletion of the health bar or at the
\* forced clear, or the clear-friendlies upgrade), the pointer kills on the
\* screen
SweptOffScreen(s) == s.velocityY = 0 /\ s.y = Height + OffScreenDrop

\* C21: Destructive is unlocked only at the end of a level that spawned
\* Targets, Protected Citizens and Static Obstacles and in which the player
\* killed every one of them: none of those that the closing purge takes off
\* the list was swept away by the depletion of the health bar or by the
\* forced clear (in a level without the clear-friendlies upgrade, whose
\* sweep is a kill by the player).
C21_DestructiveOnlyForKills ==
  [][("Destructive" \notin achievements /\ "Destructive" \in achievements')
     => /\ ClearanceRan
        /\ ScriptSpawnsTarget
        /\ ScriptSpawns("square") /\ ScriptSpawns("architecture")
        /\ \/ ScriptSpawns("clear-friendlies")
           \/ \A k \in SpawnedByLoad(shapes, loads) :
                (Friendly(shapes[k]) \/ instanceOf(shapes[k].cls, "Triangle"))
                => ~SweptOffScreen(shapes[k])]_vars

\* the clock hands the step to the callback of a timer of the kind that was
\* scheduled during the running load
CallbackRuns(kind) ==
  /\ pc = "clock" /\ Due(Game) # {}
  /\ events[FirstDue(Game)].kind = kind
  /\ ~events[FirstDue(Game)].hasDispatched
  /\ events[FirstDue(Game)].load = loads

\* the last level of the build has just been cleared with its maximum score
\* at a difficulty chosen in the menu, and the scores of the easiest
\* difficulty, which loadNextLevel records at every clear, show every level
\* before it cleared with its maximum score.  The difficulty is chosen
\* before the first clear, so those clears were made at the same difficulty.
LastLevelMaxed ==
  /\ CallbackRuns("loadNextLevel")
  /\ phase = "game" /\ difficultyAdjustment # 0
  /\ currentLevelIndex + 1 = Len(Builds[build])
  /\ score = MaxScore(Builds[build][currentLevelIndex + 1])
  /\ Len(achievedScores[0]) = currentLevelIndex
  /\ \A k \in 1..currentLevelIndex :
       achievedScores[0][k] = MaxScore(Builds[build][k])

\* C22: once every level has been cleared at difficulty d with its maximum
\* score, Max-d is unlocked.
C22_MaxUnlocked ==
  [][LastLevelMaxed => MaxName[difficultyIndex + 1] \in achievements']_vars

\* C23: Win-d is unlocked only when every level of the game has been
\* cleared in the session at difficulty d or higher.  Every clear leaves a
\* score in the row of the easiest difficulty, and clears in the order of
\* the levels leave one score each: with fewer scores there than the game
\* has levels, some level has not been cleared.
C23_WinOnlyAfterEveryLevel ==
  [][\A d \in 0..3 :
       (WinName[d + 1] \notin achievements /\ WinName[d + 1] \in achievements')
       => /\ d <= difficultyIndex
          /\ Len(achievedScores'[0]) >= Len(Builds[build])]_vars

\* the place of a lifecycle state in the order Alive, Dying, Removed
LifecycleRank(s) ==
  IF s.toBeRemoved THEN 2 ELSE IF s.dying THEN 1 ELSE 0

\* C24: the lifecycle of a shape only moves forward, Alive to Dying to
\* Removed.  In every step a shape that stays on the list keeps or advances
\* its state, becomes Removed only from Dying, and while Dying keeps the one
\* fade it has (the fade is not started again); a shape leaves the list only
\* as Removed, and a Removed shape has been Dying.
C24_LifecycleForward ==
  [][\A i \in 1..Len(shapes) :
       LET s == shapes[i]
           after == {j \in 1..Len(shapes') : shapes'[j].uid = s.uid}
       IN  /\ s.toBeRemoved => s.dying
           /\ after = {} => s.toBeRemoved
           /\ \A j \in after :
                LET t == shapes'[j]
                IN  /\ LifecycleRank(t) >= LifecycleRank(s)
                    /\ LifecycleRank(t) = 2 => s.dying
                    /\ t.toBeRemoved => t.dying
                    /\ s.dying => /\ t.fade >= s.fade
                                  /\ s.fadeActive => t.fadeActive]_vars

\* a shape killed on the screen has gone through its fade and waits, Removed,
\* for the purge of the update
C24_FadedToRemoved ==
  /\ pc = "update"
  /\ \E i \in 1..Len(shapes) :
       /\ shapes[i].dying /\ shapes[i].toBeRemoved
       /\ shapes[i].fade = FadeDuration
       /\ shapes[i].y <= Height

MaxTicks == 3

\* n successive calls of Shape.update with the same delta
RECURSIVE UpdateTimes(_, _, _, _, _)
UpdateTimes(s, n, delta, difficulty, slowFactor) ==
  IF n = 0 THEN s
  ELSE UpdateTimes(ShapeUpdate(s, delta, difficulty, slowFactor), n - 1,
                   delta, difficulty, slowFactor)

C27_ZoneHoverRefills ==
  \A i \in 1..Len(shapes) :
    (pc = "idle" /\ TopMost(i) /\ shapes[i].shapeType = "area"
       /\ Live(shapes[i]))
    => LET g == handleShapeInteraction(Game, i, shapes[i].shapeType)
       IN  /\ g.healthBar = [healthBar EXCEPT !.dyingTween = -1,
                                              !.fillGone = FALSE]
           /\ g.shapes = shapes
           /\ g.score = score

\* intangible mode runs, the pointer rests on the live zone and the
\* depletion that ran at the start of the frame has been stopped
C27_RefilledWhileIntangible ==
  /\ pc = "idle"
  /\ intangible
  /\ healthBar.dyingActive
  /\ healthBar.dyingTween = -1
  /\ \E i \in 1..Len(shapes) :
       /\ shapes[i].shapeType = "area"
       /\ Live(shapes[i])
       /\ HitTest(shapes[i], pointer)

(***************************************************************************)
(* C28: once the clearance check has reported an outcome, the callback it  *)
(* scheduled (loadNextLevel after Cleared, loadCurrentLevel after Failed)  *)
(* stays in the clock until it is due and then runs, whatever the player   *)
(* does in between: no step of a game takes a waiting outcome timer of the *)
(* running load out of the clock.                                          *)
(***************************************************************************)
C28_OutcomeTimerKept ==
  [][\A k \in 1..Len(events) :
       (/\ phase = "game"
        /\ events[k].kind \in {"loadNextLevel", "loadCurrentLevel"}
        /\ events[k].load = loads
        /\ ~events[k].removed /\ ~events[k].done
        /\ ~events[k].hasDispatched)
       => \E j \in 1..Len(events') :
            /\ events'[j].kind = events[k].kind
            /\ events'[j].load = events[k].load
            /\ events'[j].delay = OutcomeDelay
            /\ events'[j].done \/ ~events'[j].removed]_vars

(***************************************************************************)
(* C29: if intangible mode ends in a game while the pointer rests inside a  *)
(* live square (a Protected Citizen), the catch-up pass makes that square  *)
(* dying and takes 1 from the score.                                       *)
(***************************************************************************)
C29_CatchUpKillsHoveredCitizen ==
  [][(IntangibilityEnds /\ phase = "game") =>
       \A i \in 1..Len(shapes) :
         (shapes[i].cls = "Square" /\ Live(shapes[i])
            /\ HitTest(shapes[i], pointer))
         => shapes'[i].dying /\ score' = score - 1]_vars

\* the test of Level.update on a shape: not dying, and below the death plane
\* once it has moved
CrossesDeathPlane(s) ==
  /\ ~s.dying
  /\ ShapeUpdate(s, Delta, difficultyAdjustment, slowtimeFactor).y
       > Height + DeathPlaneMargin

(***************************************************************************)
(* C30: an update in which shapes cross the lower boundary untouched       *)
(* restores the spared flag of the classes that cross and no other: the    *)
(* flag of the squares only when a square crosses, the flag of the         *)
(* triangles only when a triangle crosses; an area that crosses restores   *)
(* none of the two.                                                        *)
(***************************************************************************)
C30_OnlyOwnFlagRestored ==
  [][(UpdateRuns /\ phase = "game") =>
       /\ squaresSpared' =
            (squaresSpared \/ \E i \in 1..Len(shapes) :
                                CrossesDeathPlane(shapes[i])
                                /\ shapes[i].cls = "Square")
       /\ trianglesSpared' =
            (trianglesSpared \/ \E i \in 1..Len(shapes) :
                                  CrossesDeathPlane(shapes[i])
                                  /\ instanceOf(shapes[i].cls, "Triangle"))
       /\ (\E i \in 1..Len(shapes) :
             CrossesDeathPlane(shapes[i]) /\ shapes[i].cls = "Architecture")
          => architectureSpared']_vars

\* the pointer kills the shape at index i: a hover or a click of a game
\* takes a live shape to dying
PointerKills(i) ==
  /\ phase = "game"
  /\ HoverAt(i) \/ ClickAt(i)
  /\ Live(shapes[i]) /\ shapes'[i].dying

(***************************************************************************)
(* C31: a hover or a click that kills a square, a piece of architecture or *)
(* a triangle leaves the three spared flags as they are.  A flag is taken  *)
(* by the spawn of a shape of its class only, so a flag that a shape has   *)
(* restored by leaving the screen untouched stays true when another shape  *)
(* of that class is killed afterwards.                                     *)
(***************************************************************************)
C31_KillKeepsSparedFlags ==
  [][\A i \in 1..Len(shapes) :
       PointerKills(i)
       => /\ squaresSpared' = squaresSpared
          /\ architectureSpared' = architectureSpared
          /\ trianglesSpared' = trianglesSpared]_vars

\* C31 as the specification words it: after the pointer has killed a square,
\* a piece of architecture or a triangle, the spared flag of that class is
\* false.
C31_KillTakesSparedFlag ==
  [][\A i \in 1..Len(shapes) :
       PointerKills(i)
       => /\ shapes[i].cls = "Square" => ~squaresSpared'
          /\ shapes[i].cls = "Architecture" => ~architectureSpared'
          /\ instanceOf(shapes[i].cls, "Triangle") => ~trianglesSpared']_vars

\* a triangle has been killed on the screen by the pointer after another
\* one had left the screen untouched: the flag of the triangles is true
C31_KilledAfterOneEscaped ==
  /\ phase = "game" /\ pc = "idle" /\ trianglesSpared
  /\ \E i \in SpawnedByLoad(shapes, loads) :
       /\ shapes[i].cls = "Triangle" /\ shapes[i].dying
       /\ shapes[i].y < Height /\ HitTest(shapes[i], pointer)
  /\ score = 1

(***************************************************************************)
(* C32: in every state, each scale ramp that is under way runs at the      *)
(* current time scale of the scene, the ramps whose delayed start fires    *)
(* during slow time included.                                              *)
(***************************************************************************)
C32_TweensFollowTimeScale ==
  \A k \in 1..Len(shapes) :
    LET t == shapes[k].growingTween
    IN  (phase = "game" /\ t.to # 0 /\ t.elapsed < t.duration)
        => t.timeScale = slowtimeFactor

\* the depletion tween of the health bar runs to its end in this step
DepletionCompletes == ~healthBar.fillGone /\ healthBar'.fillGone

(***************************************************************************)
(* C33: the step in which the depletion of the health bar completes is a   *)
(* step of the tween manager, not of the pointer; it leaves no shape alive *)
(* and sets the score to 0.  From then on the score stays 0 until the      *)
(* level is loaded again, and the outcome that the purge of the swept      *)
(* shapes reports is the one of score 0: cleared exactly when the          *)
(* threshold is not above 0.                                               *)
(***************************************************************************)
C33_DepletionSweepsAndResets ==
  [][/\ DepletionCompletes
          => /\ pc = "clock" /\ pc' = "update" /\ pointer' = pointer
             /\ score' = 0
             /\ Len(shapes') = Len(shapes)
             /\ \A k \in 1..Len(shapes') : ~Live(shapes'[k])
     /\ (healthBar.fillGone /\ loads' = loads) => score' = 0
     /\ (healthBar.fillGone /\ ClearanceRan)
          => messageText' = IF 0 >= levelPassableScore
                              THEN "Level Cleared!" ELSE "Level Failed"]_vars

\* the health bar has run out and the shapes it swept away, a triangle among
\* them, have faded: the next purge empties the list
C33_SweptByDepletion ==
  /\ phase = "game" /\ pc = "update" /\ healthBar.fillGone /\ score = 0
  /\ shapes # <<>>
  /\ \A k \in 1..Len(shapes) : shapes[k].toBeRemoved
  /\ \E k \in 1..Len(shapes) :
       shapes[k].cls = "Triangle" /\ SweptOffScreen(shapes[k])

\* the builds whose scripts let nothing rest but architecture and areas
LiveBuilds == {2, 13}

InitLive == Init /\ build \in LiveBuilds

\* the steps of the game loop that take a frame from one phase to the next:
\* FrameStart, the last step of the clock (TweensUpdate), Level.update
FrameBegins == pc = "idle" /\ pc' = "clock"

ClockDone == pc = "clock" /\ pc' = "update"

\* the frames keep coming: the game loop runs for every animation frame, so
\* it stays in none of its phases for ever
SpecLive ==
  /\ InitLive /\ [][Next]_vars
  /\ WF_pc(FrameBegins) /\ WF_pc(ClockDone) /\ WF_pc(UpdateRuns)

\* the script of the running level spawns shapes, and each of them is a
\* piece of architecture that rests or falls, an area, or a shape that falls
\* at a constant velocity
FallingScript ==
  /\ currentLevelIndex + 1 \in 1..Len(Builds[build])
  /\ LET script == Builds[build][currentLevelIndex + 1]
     IN  /\ \E k \in 1..Len(script) : Len(script[k]) \in {3, 10}
         /\ \A k \in 1..Len(script) :
              LET data == script[k]
              IN  /\ Len(data) \in {1, 2, 3, 10}
                  /\ Len(data) = 3 => data[3] >= 0
                  /\ Len(data) = 10
                       => /\ ClassOfLabel(data[1]) # "none"
                          /\ data[1] = "area" \/ data[5] > 0
                          /\ data[7] = <<>> /\ data[9] = <<>>
                          /\ data[10] = <<>>

\* a callback that loads a level is due: the level is about to be reloaded
ReloadDue ==
  /\ pc = "clock" /\ Due(Game) # {}
  /\ events[FirstDue(Game)].kind \in {"loadNextLevel", "loadCurrentLevel"}
  /\ ~events[FirstDue(Game)].hasDispatched

(***************************************************************************)
(* C34: in a level whose shapes, architecture and areas apart, all fall at *)
(* a constant velocity, with a difficulty chosen and the frames going on,  *)
(* the list of shapes becomes empty and an outcome is reported, unless the *)
(* level is loaded again before.                                           *)
(***************************************************************************)
C34_FallingLevelEnds ==
  \A n \in 1..MaxLoads :
    (phase = "game" /\ loads = n /\ difficultyAdjustment > 0 /\ FallingScript)
      ~> \/ shapes = <<>> /\ messageText # "none"
         \/ loads # n \/ ReloadDue

\* the forced clear has emptied a level of falling shapes: the block and the
\* zone that stayed behind are gone and the outcome is on the screen
C34_BlockAndZoneCleared ==
  /\ build = 13 /\ phase = "game" /\ shapes = <<>> /\ messageText # "none"
  /\ architectureSpared /\ ~healthBar.fillGone /\ healthBar.dyingActive

(***************************************************************************)
(* C35: from the load of a level to the report of its outcome (no message  *)
(* on the screen yet) the difficulty does not change: no step that keeps   *)
(* the level changes the difficulty index or the multiplier.               *)
(***************************************************************************)
C35_DifficultyFixedDuringLevel ==
  [][(loads > 0 /\ loads' = loads /\ messageText = "none"
        /\ difficultyAdjustment # 0)
     => /\ difficultyIndex' = difficultyIndex
        /\ difficultyAdjustment' = difficultyAdjustment]_vars

(***************************************************************************)
(* C36: while a level runs (it has been loaded and no outcome is on the    *)
(* screen), the score is at most the number of triangles, stealth          *)
(* triangles and armored triangles that its script spawns.                 *)
(***************************************************************************)
C36_ScoreAtMostTargets ==
  (/\ phase = "game" /\ loads > 0 /\ messageText = "none"
   /\ currentLevelIndex + 1 \in 1..Len(Builds[build]))
  => score <= MaxScore(Builds[build][currentLevelIndex + 1])

(***************************************************************************)
(* C37: whenever a level load is performed, the current level index refers *)
(* to an existing level script: 0 <= currentLevelIndex < levels.length,    *)
(* also for a load requested with R or from the level select after the     *)
(* last level has been cleared.                                            *)
(***************************************************************************)
C37_LoadedIndexInRange ==
  [][loads' > loads =>
       currentLevelIndex' + 1 \in 1..Len(Builds[build])]_vars

(***************************************************************************)
(* C38: no level is loaded and no entity is spawned while the difficulty   *)
(* multiplier still has its initial value 0: after every level load the    *)
(* multiplier is one of 0.5, 0.8, 1 and 1.5 (in tenths: 5, 8, 10, 15).     *)
(***************************************************************************)
C38_LoadedWithDifficulty ==
  [][loads' > loads => difficultyAdjustment' \in {5, 8, 10, 15}]_vars

(***************************************************************************)
(* C39: in every reachable state the global time-scale factor is 0.1 when  *)
(* slow time is active and 1 otherwise (in tenths: 1 and 10), across       *)
(* activation, timer expiry, early cancel with S, level reload and level   *)
(* end.                                                                    *)
(***************************************************************************)
C39_FactorFollowsSlowtime ==
  slowtimeFactor = IF slowtime THEN 1 ELSE 10

(***************************************************************************)
(* C40: triggering the clear-friendlies upgrade leaves the score unchanged *)
(* (no -1 for the citizens and obstacles it removes) and changes the       *)
(* lifecycle state of no Target, no Resource Zone and no other power-up:   *)
(* whatever hover on the upgrade the handler answers, the score after it   *)
(* is the score before it and every shape but the upgrade, the squares and *)
(* the architecture is Alive, Dying or Removed as before.                  *)
(***************************************************************************)
C40_ClearFriendliesOnlySweeps ==
  \A i \in 1..Len(shapes) :
    (pc = "idle" /\ TopMost(i) /\ shapes[i].shapeType = "clear-friendlies")
    => LET g == handleShapeInteraction(Game, i, "clear-friendlies")
       IN  /\ g.score = score
           /\ Len(g.shapes) = Len(shapes)
           /\ \A k \in 1..Len(shapes) :
                (k # i /\ ~Friendly(shapes[k]))
                => Lifecycle(g.shapes[k]) = Lifecycle(shapes[k])

\* the upgrade has been triggered: it fades, a square it took fades below
\* the screen, and a Target, a Resource Zone or another upgrade is Alive
C40_SweptBesideOthers ==
  /\ phase = "game" /\ score = 0 /\ difficultyAdjustment > 0
  /\ Len(shapes) = 3
  /\ \E i, k, t \in 1..Len(shapes) :
       /\ shapes[i].shapeType = "clear-friendlies" /\ shapes[i].dying
       /\ shapes[i].y < Height
       /\ shapes[k].cls = "Square" /\ shapes[k].dying
       /\ shapes[k].y = Height + OffScreenDrop
       /\ shapes[t].cls \in {"Triangle", "Area", "SlowTime"}
       /\ Live(shapes[t])

====
